---- MODULE Spec2Model ----
(***************************************************************************)
(* Model of the RayAIShopper backend core: the three-tier similarity       *)
(* search of VectorSearchService (vector_service.py) and the TTL session   *)
(* store and request handlers of RecommendationService                     *)
(* (recommendation_service.py).                                            *)
(*                                                                         *)
(* Conventions.                                                            *)
(*  - Python's None, "" and [] are all falsy and the code only tests the   *)
(*    truthiness of the optional arguments (search_query, gender_filter,   *)
(*    article_type_filter), so an absent string is "" and an absent list   *)
(*    is <<>>.                                                             *)
(*  - A similarity score is a pair <<num, den>> with den > 0 standing for  *)
(*    the rational num/den; scores are compared by cross-multiplication.   *)
(*  - session_data["exclude_ids"] is a Python list that the code only      *)
(*    tests for membership, appends to when absent and unions through      *)
(*    set(); it is a set here.  The interaction lists are sequences.       *)
(***************************************************************************)
EXTENDS Integers, Sequences, FiniteSets, TLC

VARIABLES
    recommendation_service, \* main.py: the global service, "None" until set
    files,          \* the data files load_or_create_index looks for
    background,     \* the task running _generate_embeddings_background
    service_lock,   \* main.py: _service_lock, and the instances made so far
    vs,             \* VectorSearchService fields
    session_cache,  \* RecommendationService.session_cache
    last_cleanup,   \* RecommendationService.last_cleanup
    now,            \* the clock read by time.time()
    inflight,       \* get_recommendations coroutines suspended at an await
    call,           \* the handler that ran last and its arguments
    resp,           \* what that handler returned or raised
    applied         \* per session: ids disliked since the session was stored

\* the state of the service's lifecycle, which no request handler writes
lifecycle == <<recommendation_service, files, background, service_lock>>

vars == <<lifecycle, vs, session_cache, last_cleanup, now, inflight, call, resp,
          applied>>

(***************************************************************************)
(* Bounds of the model.                                                    *)
(***************************************************************************)
MaxCatalog == 3
MaxK == 2

(***************************************************************************)
(* Program constants.                                                      *)
(***************************************************************************)
session_ttl == 3600
cleanup_interval == 300

(***************************************************************************)
(* Generic helpers.                                                        *)
(***************************************************************************)
Range(s) == {s[i] : i \in 1..Len(s)}

Min(a, b) == IF a < b THEN a ELSE b

\* evaluate v once and use the value as r in F(r)
Bind(v, F(_)) == CHOOSE out \in {F(r) : r \in {v}} : TRUE

\* Python's seq[:n] for n >= 0
Take(s, n) == Bind(s, LAMBDA q : SubSeq(q, 1, Min(n, Len(q))))

\* Python's list.remove(x) when x is present: drops the first occurrence
RECURSIVE RemoveFirst(_, _)
RemoveFirst(s, x) ==
    IF s = <<>> THEN <<>>
    ELSE IF Head(s) = x THEN Tail(s)
    ELSE <<Head(s)>> \o RemoveFirst(Tail(s), x)

(***************************************************************************)
(* The catalog: rows of the styles CSV as loaded by pandas (integer ids).  *)
(***************************************************************************)
Row(i, name, master, sub, art, colour, gender, season, usage, emb) ==
    [id |-> i, productDisplayName |-> name, masterCategory |-> master,
     subCategory |-> sub, articleType |-> art, baseColour |-> colour,
     gender |-> gender, season |-> season, usage |-> usage, embedding |-> emb]

PoolRow(i) ==
    CASE i = 1 -> Row(1, "Blue Jeans", "Apparel", "Bottomwear", "Jeans",
                      "Blue", "Men", "Summer", "Casual", <<1, 0>>)
      [] i = 2 -> Row(2, "Classic Jeans", "Apparel", "Bottomwear", "Jeans",
                      "Black", "Unisex", "Winter", "Casual", <<1, 1>>)
      [] i = 3 -> Row(3, "Red Tshirt", "Apparel", "Topwear", "Tshirts",
                      "Red", "Women", "Summer", "Sports", <<0, 1>>)
      [] i = 4 -> Row(4, "Black Jeans", "Apparel", "Bottomwear", "Jeans",
                      "Black", "Men", "Winter", "Casual", <<1, 0>>)

PoolIds == 1..4

\* catalogs: duplicate-free sequences of pool rows, at most MaxCatalog long
IdSeqs == UNION {[1..n -> PoolIds] : n \in 1..MaxCatalog}

Catalogs == {[j \in 1..Len(q) |-> PoolRow(q[j])] :
                q \in {r \in IdSeqs : Cardinality(Range(r)) = Len(r)}}

\* product ids as request strings
ProductIds == {ToString(i) : i \in PoolIds}

(***************************************************************************)
(* Text: str.lower(), str.split() and the substring test `term in text`,   *)
(* tabulated for the strings of the catalog pool and of the queries.       *)
(***************************************************************************)
Lower(s) ==
    CASE s = "Blue Jeans" -> "blue jeans"
      [] s = "Classic Jeans" -> "classic jeans"
      [] s = "Red Tshirt" -> "red tshirt"
      [] s = "Black Jeans" -> "black jeans"
      [] s = "Apparel" -> "apparel"
      [] s = "Bottomwear" -> "bottomwear"
      [] s = "Topwear" -> "topwear"
      [] s = "Jeans" -> "jeans"
      [] s = "Tshirts" -> "tshirts"
      [] s = "Blue" -> "blue"
      [] s = "Black" -> "black"
      [] s = "Red" -> "red"
      [] s = "Men" -> "men"
      [] s = "Women" -> "women"
      [] s = "Unisex" -> "unisex"
      [] s = "Summer" -> "summer"
      [] s = "Winter" -> "winter"
      [] s = "Casual" -> "casual"
      [] s = "Sports" -> "sports"
      [] OTHER -> s

\* the query terms that are substrings of a lower-cased text
TermsIn(t) ==
    CASE t = "blue jeans" -> {"blue", "jeans"}
      [] t = "classic jeans" -> {"jeans"}
      [] t = "red tshirt" -> {"red"}
      [] t = "black jeans" -> {"jeans"}
      [] t = "jeans" -> {"jeans"}
      [] t = "blue" -> {"blue"}
      [] t = "red" -> {"red"}
      [] t = "men" -> {"men"}
      [] t = "women" -> {"women", "men"}
      [] t = "summer" -> {"summer"}
      [] t = "casual" -> {"casual"}
      [] OTHER -> {}

\* Python: term in text
Contains(text, term) == term \in TermsIn(text)

\* search_query.lower().split()
SearchTerms(q) ==
    CASE q = "blue jeans" -> <<"blue", "jeans">>
      [] q = "Men casual" -> <<"men", "casual">>
      [] q = "red summer" -> <<"red", "summer">>
      [] OTHER -> <<>>

SearchQueries == {"", "blue jeans", "Men casual", "red summer"}

(***************************************************************************)
(* Scores.                                                                 *)
(***************************************************************************)
ScoreLess(a, b) == a[1] * b[2] < b[1] * a[2]

ScoreEq(a, b) == a[1] * b[2] = b[1] * a[2]

\* variant: an unstable sort, which puts a later element before its equals
RECURSIVE InsertDescUnstable(_, _)
InsertDescUnstable(sorted, x) ==
    IF sorted = <<>> THEN <<x>>
    ELSE IF ~ScoreLess(x[2], Head(sorted)[2]) THEN <<x>> \o sorted
    ELSE <<Head(sorted)>> \o InsertDescUnstable(Tail(sorted), x)

\* list.sort(key=lambda x: x[1], reverse=True): stable, highest score first.
\* Each element of s is a pair <<product, score>>.
RECURSIVE InsertDesc(_, _)
InsertDesc(sorted, x) ==
    IF sorted = <<>> THEN <<x>>
    ELSE IF ScoreLess(Head(sorted)[2], x[2]) THEN <<x>> \o sorted
    ELSE <<Head(sorted)>> \o InsertDesc(Tail(sorted), x)

RECURSIVE SortDesc(_)
SortDesc(s) ==
    IF s = <<>> THEN <<>>
    ELSE InsertDesc(SortDesc(SubSeq(s, 1, Len(s) - 1)), s[Len(s)])

Dot(a, b) == a[1] * b[1] + a[2] * b[2]

Sign(x) == IF x < 0 THEN -1 ELSE IF x > 0 THEN 1 ELSE 0

\* cosine_similarity: dot/(|a||b|), 0 for a zero vector or a length mismatch.
\* The value kept is sign(dot)*dot^2 / (|a|^2 |b|^2), which orders exactly as
\* the cosine does and is 0, 1 or -1 exactly when the cosine is.
cosine_similarity(vec1, vec2) ==
    IF Len(vec1) # Len(vec2) THEN <<0, 1>>
    ELSE IF Dot(vec1, vec1) = 0 \/ Dot(vec2, vec2) = 0 THEN <<0, 1>>
    ELSE <<Sign(Dot(vec1, vec2)) * Dot(vec1, vec2) * Dot(vec1, vec2),
           Dot(vec1, vec1) * Dot(vec2, vec2)>>

\* squared L2 distance of IndexFlatL2
L2(a, b) == (a[1] - b[1]) * (a[1] - b[1]) + (a[2] - b[2]) * (a[2] - b[2])

(***************************************************************************)
(* _calculate_text_similarity, in hundredths.                              *)
(***************************************************************************)
TermScore(p, term) ==
    IF \E f \in {p.productDisplayName, p.masterCategory, p.subCategory,
                 p.articleType, p.baseColour, p.gender, p.season, p.usage} :
           Contains(Lower(f), term)
    THEN IF Contains(Lower(p.productDisplayName), term) THEN 30
         ELSE IF Contains(Lower(p.articleType), term) THEN 25
         ELSE IF Contains(Lower(p.baseColour), term) THEN 20
         ELSE IF Contains(Lower(p.usage), term) THEN 15
         ELSE 10
    ELSE 0

season_terms == {"summer", "winter", "spring", "fall", "casual", "formal",
                 "party", "beach", "pool"}

SeasonScore(p, term) ==
    IF term \in season_terms
       /\ (Contains(Lower(p.season), term) \/ Contains(Lower(p.usage), term))
    THEN 15 ELSE 0

GenderBonus(p, terms) ==
    IF Range(terms) \cap {"men", "man", "male"} # {}
    THEN IF Lower(p.gender) \in {"men", "male"} THEN 20 ELSE 0
    ELSE IF Range(terms) \cap {"women", "woman", "female"} # {}
    THEN IF Lower(p.gender) \in {"women", "female"} THEN 20 ELSE 0
    ELSE 0

calculate_text_similarity(p, terms) ==
    LET ts[i \in 0..Len(terms)] ==
            IF i = 0 THEN 0 ELSE ts[i - 1] + TermScore(p, terms[i])
        ss[i \in 0..Len(terms)] ==
            IF i = 0 THEN 0 ELSE ss[i - 1] + SeasonScore(p, terms[i])
    IN  Bind(ts[Len(terms)] + GenderBonus(p, terms) + ss[Len(terms)],
             LAMBDA score : <<Min(score, 100), 100>>)

(***************************************************************************)
(* VectorSearchService: the search strategies.                             *)
(* A search returns [error, results]; error is TRUE when the call raises.  *)
(* results is a sequence of pairs <<ProductItem, score>>.                  *)
(***************************************************************************)
create_product_item(product_data, similarity_score) ==
    [id |-> ToString(product_data.id),
     name |-> product_data.productDisplayName,
     article_type |-> product_data.articleType,
     gender |-> product_data.gender,
     similarity_score |-> similarity_score]

\* variant: the gender test left out of the strategies
GenderDropsNever(product_data, gender_filter) == FALSE

\* the two filter tests repeated in every strategy
GenderDrops(product_data, gender_filter) ==
    gender_filter # "" /\ product_data.gender # gender_filter

ArticleDrops(product_data, article_type_filter) ==
    article_type_filter # <<>>
    /\ product_data.articleType \notin Range(article_type_filter)

\* variant: the exclusion test left out of the strategies
ExcludedIgnored(product_data, exclude_ids) == FALSE

Excluded(product_data, exclude_ids) == ToString(product_data.id) \in exclude_ids

\* the conversion loop at the end of the embedding and keyword strategies
ToResults(selected, gender_filter, article_type_filter) ==
    LET keep(x) == ~GenderDrops(x[1], gender_filter)
                   /\ ~ArticleDrops(x[1], article_type_filter)
    IN  Bind(SelectSeq(selected, keep), LAMBDA kept :
            [i \in 1..Len(kept) |->
                <<create_product_item(kept[i][1], kept[i][2]), kept[i][2]>>])

\* index.search(query, search_k): the search_k nearest rows, nearest first;
\* rows at the same distance come in row order
IndexSearch(index, query_embedding, search_k) ==
    LET scored == [i \in 1..Len(index.vectors) |->
                     <<i, <<1, 1 + L2(query_embedding, index.vectors[i])>>>>]
    IN  Take(SortDesc(scored), search_k)

faiss_search(v, query_embedding, k, exclude_ids, gender_filter, article_type_filter) ==
    LET search_k == Min(k * 3, Len(v.index.vectors))
        data(idx) == IF v.metadata # <<>> THEN v.metadata[idx] ELSE v.df[idx]
        keep(x) == /\ ~Excluded(data(x[1]), exclude_ids)
                   /\ ~GenderDrops(data(x[1]), gender_filter)
                   /\ ~ArticleDrops(data(x[1]), article_type_filter)
    IN  IF search_k <= 0 \/ Len(query_embedding) # v.dimension
        THEN [error |-> TRUE, results |-> <<>>]
        ELSE Bind(Take(SelectSeq(IndexSearch(v.index, query_embedding,
                                             search_k), keep), k),
                  LAMBDA kept :
                      [error |-> FALSE,
                       results |-> [i \in 1..Len(kept) |->
                           <<create_product_item(data(kept[i][1]), kept[i][2]),
                             kept[i][2]>>]])

embedding_similarity_search(v, query_embedding, k, exclude_ids, gender_filter, article_type_filter) ==
    LET keep(p) == /\ ~Excluded(p, exclude_ids)
                   /\ p.embedding # <<>>
                   /\ ~GenderDrops(p, gender_filter)
                   /\ ~ArticleDrops(p, article_type_filter)
    IN  Bind(SelectSeq(v.products_with_embeddings, keep), LAMBDA cands :
        Bind([i \in 1..Len(cands) |->
                 <<cands[i],
                   cosine_similarity(query_embedding, cands[i].embedding)>>],
             LAMBDA similarities :
        Bind(Take(SortDesc(similarities), k), LAMBDA top_results :
            [error |-> FALSE,
             results |-> ToResults(top_results, gender_filter,
                                   article_type_filter)])))

keyword_similarity_search(v, k, exclude_ids, search_query, gender_filter, article_type_filter) ==
    LET avail(p) == ~Excluded(p, exclude_ids)
        search_terms == SearchTerms(search_query)
        scored(p) == <<p, calculate_text_similarity(p, search_terms)>>
        relevant(x) ==
            /\ ScoreLess(<<0, 1>>, x[2])
            /\ ~GenderDrops(x[1], gender_filter)
            /\ ~ArticleDrops(x[1], article_type_filter)
    IN  Bind(SelectSeq(v.products_data, avail), LAMBDA available_products :
            IF available_products = <<>>
            THEN [error |-> FALSE, results |-> <<>>]
            ELSE IF search_query # ""
            THEN Bind(SelectSeq([i \in 1..Len(available_products) |->
                                    scored(available_products[i])], relevant),
                      LAMBDA scored_products :
                 Bind(Take(SortDesc(scored_products), k),
                      LAMBDA selected_products :
                          [error |-> FALSE,
                           results |-> ToResults(selected_products,
                                           gender_filter,
                                           article_type_filter)]))
            ELSE Bind(Take(available_products, k), LAMBDA first :
                     [error |-> FALSE,
                      results |-> ToResults(
                          [i \in 1..Len(first) |-> <<first[i], <<1, 2>>>>],
                          gender_filter, article_type_filter)]))

similarity_search(v, query_embedding, k, exclude_ids, search_query, gender_filter, article_type_filter) ==
    IF ~v.fallback_mode /\ v.index.loaded /\ v.FAISS_AVAILABLE
    THEN faiss_search(v, query_embedding, k, exclude_ids, gender_filter,
                      article_type_filter)
    ELSE IF v.products_with_embeddings # <<>>
    THEN embedding_similarity_search(v, query_embedding, k, exclude_ids,
                                     gender_filter, article_type_filter)
    ELSE IF v.products_data # <<>>
    THEN keyword_similarity_search(v, k, exclude_ids, search_query,
                                   gender_filter, article_type_filter)
    ELSE [error |-> FALSE, results |-> <<>>]

\* [result[0] for result in search_results]
ItemsOf(results) == [i \in 1..Len(results) |-> results[i][1]]

\* VectorSearchService.get_fresh_recommendations: the items of a search
vector_get_fresh_recommendations(v, query_embedding, exclude_ids, count, search_query, gender_filter, article_type_filter) ==
    Bind(similarity_search(v, query_embedding, count, exclude_ids,
                           search_query, gender_filter, article_type_filter),
         LAMBDA r : [error |-> r.error, items |-> ItemsOf(r.results)])

(***************************************************************************)
(* The states load_or_create_index and the background embedding task can   *)
(* leave the vector service in, for a catalog c.                           *)
(***************************************************************************)
WithoutEmbedding(c) == [i \in 1..Len(c) |-> [c[i] EXCEPT !.embedding = <<>>]]

\* Mode A: prebuilt index and metadata read from disk
LoadedFaiss(c) ==
    [fallback_mode |-> FALSE, FAISS_AVAILABLE |-> TRUE, dimension |-> 2,
     index |-> [loaded |-> TRUE,
                vectors |-> [i \in 1..Len(c) |-> c[i].embedding]],
     metadata |-> WithoutEmbedding(c), df |-> c,
     products_with_embeddings |-> <<>>, products_data |-> <<>>]

\* Mode C: the CSV rows only
LoadedKeyword(c) ==
    [fallback_mode |-> FALSE, FAISS_AVAILABLE |-> FALSE, dimension |-> 0,
     index |-> [loaded |-> FALSE, vectors |-> <<>>],
     metadata |-> <<>>, df |-> WithoutEmbedding(c),
     products_with_embeddings |-> <<>>,
     products_data |-> WithoutEmbedding(c)]

\* Mode B: the CSV rows and their embedded copies
LoadedEmbedding(c) ==
    [LoadedKeyword(c) EXCEPT !.products_with_embeddings = c]

VectorStates ==
    {LoadedFaiss(c) : c \in Catalogs} \cup {LoadedEmbedding(c) : c \in Catalogs}
    \cup {LoadedKeyword(c) : c \in Catalogs}

SearchMode(v) ==
    IF ~v.fallback_mode /\ v.index.loaded /\ v.FAISS_AVAILABLE THEN "A"
    ELSE IF v.products_with_embeddings # <<>> THEN "B"
    ELSE "C"

(***************************************************************************)
(* OpenAIService.enhance_recommendations: reorder by the model's ranking.  *)
(* ok = FALSE stands for a failed call or an unparsable answer.            *)
(***************************************************************************)
RECURSIVE AppendMissing(_, _)
AppendMissing(acc, rest) ==
    IF rest = <<>> THEN acc
    ELSE IF Head(rest) \in Range(acc) THEN AppendMissing(acc, Tail(rest))
    ELSE AppendMissing(Append(acc, Head(rest)), Tail(rest))

enhance_recommendations(recommendations, ranked_ids, ok) ==
    LET known(pid) == \E i \in 1..Len(recommendations) :
                          recommendations[i].id = pid
        \* id_to_item: the last item with that id wins
        item(pid) == recommendations[CHOOSE i \in 1..Len(recommendations) :
                        /\ recommendations[i].id = pid
                        /\ \A j \in (i + 1)..Len(recommendations) :
                               recommendations[j].id # pid]
        hits == SelectSeq(ranked_ids, known)
        ranked == [i \in 1..Len(hits) |-> item(hits[i])]
    IN  IF ok THEN AppendMissing(ranked, recommendations) ELSE recommendations

(***************************************************************************)
(* RecommendationService: the session store.  st = [cache, last_cleanup],  *)
(* t is the value time.time() returns while the handler runs.              *)
(***************************************************************************)
\* variant: no throttle, every call scans
SweepSkippedNever(st, t) == FALSE

\* the throttle: the sweep is skipped until the interval has passed
SweepSkipped(st, t) == t - st.last_cleanup < cleanup_interval

\* variant: the sweep measures the age from the last access
ExpiredByAccess(session_data, t) ==
    t - session_data.last_accessed > session_ttl

\* the expiry test of the sweep
Expired(session_data, t) == t - session_data.created_at > session_ttl

cleanup_expired_sessions(st, t) ==
    IF SweepSkipped(st, t) THEN st
    ELSE LET live == {sid \in DOMAIN st.cache : ~Expired(st.cache[sid], t)}
         IN  [cache |-> [sid \in live |-> st.cache[sid]], last_cleanup |-> t]

store_session_data(st, t, session_id, data) ==
    Bind(cleanup_expired_sessions(st, t), LAMBDA c :
        [c EXCEPT !.cache =
            [sid \in DOMAIN c.cache \cup {session_id} |->
                IF sid = session_id
                THEN [data EXCEPT !.created_at = t, !.last_accessed = t]
                ELSE c.cache[sid]]])

\* returns the store after the call and whether the session was found
get_session_data(st, t, session_id) ==
    Bind(cleanup_expired_sessions(st, t), LAMBDA c :
        IF session_id \in DOMAIN c.cache
        THEN [st |-> [c EXCEPT !.cache[session_id].last_accessed = t],
              found |-> TRUE]
        ELSE [st |-> c, found |-> FALSE])

\* map_article_type / _map_article_type
map_article_type(user_selection) ==
    CASE user_selection = "Tshirts" -> <<"Tshirts", "T-Shirts">>
      [] user_selection = "Casual Shoes" -> <<"Casual Shoes", "Shoes">>
      [] OTHER -> <<user_selection>>

IdsOf(items) == [i \in 1..Len(items) |-> items[i].id]

(***************************************************************************)
(* RecommendationService.get_fresh_recommendations.  outcome is "ok",      *)
(* "not_found" (ValueError) or "error" (any other exception); age is the   *)
(* age of the session data the call worked on, -1 when it found none.      *)
(***************************************************************************)
\* variant: the stored exclusions are dropped
CombineExcludesNewOnly(stored, new) == new

\* list(set(session_data["exclude_ids"] + exclude_ids))
CombineExcludes(stored, new) == stored \cup new

get_fresh_recommendations(st, t, v, session_id, exclude_ids, count) ==
    Bind(get_session_data(st, t, session_id), LAMBDA g :
        IF ~g.found
        THEN [st |-> g.st, outcome |-> "not_found", items |-> <<>>,
              searched |-> FALSE, age |-> -1]
        ELSE
        Bind(g.st.cache[session_id], LAMBDA session_data :
        Bind(CombineExcludes(session_data.exclude_ids, exclude_ids),
             LAMBDA all_exclude_ids :
        Bind(vector_get_fresh_recommendations(v,
                 session_data.query_embedding, all_exclude_ids, count,
                 session_data.search_query, session_data.user_profile.gender,
                 session_data.user_profile.preferred_article_types),
             LAMBDA fresh :
            IF fresh.error
            THEN [st |-> g.st, outcome |-> "error", items |-> <<>>,
                  searched |-> TRUE, age |-> t - session_data.created_at]
            ELSE [st |-> store_session_data(g.st, t, session_id,
                            [session_data EXCEPT
                                 !.exclude_ids = all_exclude_ids]),
                  outcome |-> "ok", items |-> fresh.items,
                  searched |-> TRUE, age |-> t - session_data.created_at]))))

(***************************************************************************)
(* RecommendationService.process_feedback.                                 *)
(***************************************************************************)
\* variant: a like also takes the product off the exclusion list
ApplyInteractionLikeUnexcludes(session_data, product_id, action) ==
    LET i == session_data.user_interactions
    IN  CASE action = "like" ->
               LET liked == IF product_id \notin Range(i.liked)
                            THEN Append(i.liked, product_id) ELSE i.liked
                   disliked == IF product_id \in Range(i.disliked)
                               THEN RemoveFirst(i.disliked, product_id)
                               ELSE i.disliked
               IN  [session_data EXCEPT !.user_interactions.liked = liked,
                                        !.user_interactions.disliked = disliked,
                                        !.exclude_ids = @ \ {product_id}]
          [] action = "dislike" ->
               LET disliked == IF product_id \notin Range(i.disliked)
                               THEN Append(i.disliked, product_id)
                               ELSE i.disliked
                   liked == IF product_id \in Range(i.liked)
                            THEN RemoveFirst(i.liked, product_id)
                            ELSE i.liked
               IN  [session_data EXCEPT !.user_interactions.liked = liked,
                                        !.user_interactions.disliked = disliked,
                                        !.exclude_ids = @ \cup {product_id}]
          [] action = "save" ->
               [session_data EXCEPT !.user_interactions.saved =
                    IF product_id \notin Range(i.saved)
                    THEN Append(i.saved, product_id) ELSE i.saved]
          [] OTHER -> session_data

\* variant: a dislike leaves the product in liked
ApplyInteractionKeepsLiked(session_data, product_id, action) ==
    LET i == session_data.user_interactions
    IN  CASE action = "like" ->
               LET liked == IF product_id \notin Range(i.liked)
                            THEN Append(i.liked, product_id) ELSE i.liked
                   disliked == IF product_id \in Range(i.disliked)
                               THEN RemoveFirst(i.disliked, product_id)
                               ELSE i.disliked
               IN  [session_data EXCEPT !.user_interactions.liked = liked,
                                        !.user_interactions.disliked = disliked]
          [] action = "dislike" ->
               LET disliked == IF product_id \notin Range(i.disliked)
                               THEN Append(i.disliked, product_id)
                               ELSE i.disliked
                   liked == i.liked
               IN  [session_data EXCEPT !.user_interactions.liked = liked,
                                        !.user_interactions.disliked = disliked,
                                        !.exclude_ids = @ \cup {product_id}]
          [] action = "save" ->
               [session_data EXCEPT !.user_interactions.saved =
                    IF product_id \notin Range(i.saved)
                    THEN Append(i.saved, product_id) ELSE i.saved]
          [] OTHER -> session_data

\* the like / dislike / save branches, applied to an existing session
ApplyInteraction(session_data, product_id, action) ==
    LET i == session_data.user_interactions
    IN  CASE action = "like" ->
               LET liked == IF product_id \notin Range(i.liked)
                            THEN Append(i.liked, product_id) ELSE i.liked
                   disliked == IF product_id \in Range(i.disliked)
                               THEN RemoveFirst(i.disliked, product_id)
                               ELSE i.disliked
               IN  [session_data EXCEPT !.user_interactions.liked = liked,
                                        !.user_interactions.disliked = disliked]
          [] action = "dislike" ->
               LET disliked == IF product_id \notin Range(i.disliked)
                               THEN Append(i.disliked, product_id)
                               ELSE i.disliked
                   liked == IF product_id \in Range(i.liked)
                            THEN RemoveFirst(i.liked, product_id)
                            ELSE i.liked
               IN  [session_data EXCEPT !.user_interactions.liked = liked,
                                        !.user_interactions.disliked = disliked,
                                        !.exclude_ids = @ \cup {product_id}]
          [] action = "save" ->
               [session_data EXCEPT !.user_interactions.saved =
                    IF product_id \notin Range(i.saved)
                    THEN Append(i.saved, product_id) ELSE i.saved]
          [] OTHER -> session_data

\* variant: the failure of the follow-up lookup is reported
process_feedbackUnguarded(st, t, v, session_id, product_id, action) ==
    Bind(get_session_data(st, t, session_id), LAMBDA g :
    Bind(IF g.found
         THEN store_session_data(g.st, t, session_id,
                  ApplyInteraction(g.st.cache[session_id], product_id,
                                   action))
         ELSE g.st,
         LAMBDA st1 :
    Bind(IF g.found THEN t - g.st.cache[session_id].created_at ELSE -1,
         LAMBDA age :
        IF action = "dislike"
        THEN Bind(get_fresh_recommendations(st1, t, v, session_id,
                                            {product_id}, 1),
                  LAMBDA fresh :
                      [st |-> fresh.st, success |-> fresh.outcome = "ok",
                       retained |-> g.found,
                       has_fresh |-> fresh.outcome = "ok",
                       items |-> fresh.items, searched |-> fresh.searched,
                       age |-> age])
        ELSE [st |-> st1, success |-> TRUE, retained |-> g.found,
              has_fresh |-> FALSE, items |-> <<>>, searched |-> FALSE,
              age |-> age])))

process_feedback(st, t, v, session_id, product_id, action) ==
    Bind(get_session_data(st, t, session_id), LAMBDA g :
    Bind(IF g.found
         THEN store_session_data(g.st, t, session_id,
                  ApplyInteraction(g.st.cache[session_id], product_id,
                                   action))
         ELSE g.st,
         LAMBDA st1 :
    Bind(IF g.found THEN t - g.st.cache[session_id].created_at ELSE -1,
         LAMBDA age :
        IF action = "dislike"
        THEN Bind(get_fresh_recommendations(st1, t, v, session_id,
                                            {product_id}, 1),
                  LAMBDA fresh :
                      [st |-> fresh.st, success |-> TRUE,
                       retained |-> g.found,
                       has_fresh |-> fresh.outcome = "ok",
                       items |-> fresh.items, searched |-> fresh.searched,
                       age |-> age])
        ELSE [st |-> st1, success |-> TRUE, retained |-> g.found,
              has_fresh |-> FALSE, items |-> <<>>, searched |-> FALSE,
              age |-> age])))

(***************************************************************************)
(* RecommendationService.get_recommendations (v1).  The request is         *)
(* [session_id, user_profile, exclude_ids, top_k, items_per_category];     *)
(* session_id "" and items_per_category 0 stand for None.  search_query,   *)
(* query_embedding, embed_ok, ranked_ids and rank_ok are what the external *)
(* calls answer; uuid is the value of uuid.uuid4().                        *)
(***************************************************************************)
NewSession(user_profile, query_embedding, search_query, exclude_ids) ==
    [user_profile |-> user_profile,
     query_embedding |-> query_embedding,
     search_query |-> search_query,
     exclude_ids |-> exclude_ids,
     user_interactions |-> [liked |-> <<>>, disliked |-> <<>>, saved |-> <<>>],
     created_at |-> 0, last_accessed |-> 0]

\* the per-category loop of v1: one search and one rerank per article type
CategorySearches(v, req, search_query, query_embedding, ranked_ids, rank_ok) ==
    LET types == req.user_profile.preferred_article_types
        one(i) ==
            Bind(similarity_search(v, query_embedding,
                     req.items_per_category * 2, req.exclude_ids,
                     search_query, req.user_profile.gender,
                     map_article_type(types[i])),
                 LAMBDA r :
            Bind(ItemsOf(r.results), LAMBDA category_items :
                [error |-> r.error,
                 items |-> Take(enhance_recommendations(category_items,
                                    ranked_ids, rank_ok),
                                req.items_per_category)]))
    IN  Bind([i \in 1..Len(types) |-> one(i)], LAMBDA cat :
            LET all[i \in 0..Len(types)] ==
                    IF i = 0 THEN <<>> ELSE all[i - 1] \o cat[i].items
            IN  Bind(all[Len(types)], LAMBDA all_recommendations :
                    [error |-> \E i \in 1..Len(types) : cat[i].error,
                     items |-> all_recommendations,
                     total_available |-> Len(all_recommendations)]))

SingleSearch(v, req, search_query, query_embedding, ranked_ids, rank_ok) ==
    Bind(similarity_search(v, query_embedding, req.top_k * 2,
             req.exclude_ids, search_query, req.user_profile.gender,
             req.user_profile.preferred_article_types),
         LAMBDA r :
    Bind(ItemsOf(r.results), LAMBDA product_items :
        [error |-> r.error,
         items |-> Take(enhance_recommendations(product_items, ranked_ids,
                                                rank_ok), req.top_k),
         total_available |-> Len(product_items)]))

\* steps 5-7 of v1: the searches and reranks, before the session is stored
RecommendSearch(v, req, search_query, query_embedding, ranked_ids, rank_ok) ==
    IF req.items_per_category # 0
       /\ req.user_profile.preferred_article_types # <<>>
    THEN CategorySearches(v, req, search_query, query_embedding, ranked_ids,
                          rank_ok)
    ELSE SingleSearch(v, req, search_query, query_embedding, ranked_ids,
                      rank_ok)

\* steps 8-9 of v1: store the session and answer
RecommendStoreStep(st, t, req, uuid, search_query, query_embedding, found) ==
    LET session_id == IF req.session_id # "" THEN req.session_id ELSE uuid
    IN  [st |-> store_session_data(st, t, session_id,
                    NewSession(req.user_profile, query_embedding, search_query,
                               req.exclude_ids)),
         ok |-> TRUE, session_id |-> session_id, items |-> found.items,
         total_available |-> found.total_available]

get_recommendations(st, t, v, req, uuid, search_query, query_embedding, embed_ok, ranked_ids, rank_ok) ==
    IF ~embed_ok
    THEN [st |-> st, ok |-> FALSE, session_id |-> "", items |-> <<>>,
          total_available |-> 0]
    ELSE Bind(RecommendSearch(v, req, search_query, query_embedding,
                              ranked_ids, rank_ok),
              LAMBDA found :
                  IF found.error
                  THEN [st |-> st, ok |-> FALSE, session_id |-> "",
                        items |-> <<>>, total_available |-> 0]
                  ELSE RecommendStoreStep(st, t, req, uuid, search_query,
                                          query_embedding, found))

(***************************************************************************)
(* RecommendationService.get_recommendations_v2.  openai_ok = FALSE is a   *)
(* failure of the query or embedding call; the fallback branch then calls  *)
(* similarity_search with a keyword argument `query` the function does not *)
(* have, which raises TypeError inside the per-category try.  raising is   *)
(* the set of categories whose search raises for a reason of its own (a    *)
(* catalog row of that type that cannot be converted); the per-category    *)
(* handler (except Exception as category_error) catches either.            *)
(***************************************************************************)
DefaultPerCategory == 20

PerCategory(req) ==
    IF req.items_per_category # 0 THEN req.items_per_category
    ELSE DefaultPerCategory

CategoryResultV2(v, req, category, search_query, query_embedding, openai_ok, ranked_ids, rank_ok, raises) ==
    IF ~openai_ok \/ query_embedding = <<>> \/ raises THEN <<>>
    ELSE Bind(similarity_search(v, query_embedding, PerCategory(req) * 3,
                  req.exclude_ids, search_query, req.user_profile.gender,
                  map_article_type(category)),
              LAMBDA r :
         Bind(ItemsOf(r.results), LAMBDA category_items :
             IF r.error \/ category_items = <<>> THEN <<>>
             ELSE Take(enhance_recommendations(category_items, ranked_ids,
                                               rank_ok),
                       PerCategory(req) * 2)))

\* variant: every requested entry is counted, a repeated category twice
TotalItemsPerRequest(user_categories, categories) ==
    LET total[i \in 0..Len(user_categories)] ==
            IF i = 0 THEN 0
            ELSE total[i - 1] + Len(categories[user_categories[i]])
    IN  total[Len(user_categories)]

\* sum(len(cat.items) for cat in result.categories.values()): one term per
\* key of the dict, in the order the keys were first requested
TotalItems(user_categories, categories) ==
    LET total[i \in 0..Len(user_categories)] ==
            IF i = 0 THEN 0
            ELSE total[i - 1]
                 + (IF \E j \in 1..(i - 1) :
                           user_categories[j] = user_categories[i]
                    THEN 0 ELSE Len(categories[user_categories[i]]))
    IN  total[Len(user_categories)]

\* variant: without the per-category handler a raising search reaches the
\* outer handler and the request fails
get_recommendations_v2Aborting(v, req, uuid, uuid2, search_query, query_embedding, openai_ok, ranked_ids, rank_ok, raising) ==
    LET user_categories == req.user_profile.preferred_article_types
    IN  IF user_categories = <<>> \/ Range(user_categories) \cap raising # {}
        THEN [success |-> FALSE, session_id |-> uuid2,
              categories |-> <<>>, categories_found |-> <<>>,
              categories_missing |-> user_categories, total_items |-> 0]
        ELSE
        Bind([c \in Range(user_categories) |->
                 CategoryResultV2(v, req, c, search_query, query_embedding,
                                  openai_ok, ranked_ids, rank_ok, FALSE)],
             LAMBDA categories :
            LET found(c) == categories[c] # <<>>
                missing(c) == categories[c] = <<>>
            IN  [success |-> TRUE,
                 session_id |-> IF req.session_id # "" THEN req.session_id
                                ELSE uuid,
                 categories |-> categories,
                 categories_found |-> SelectSeq(user_categories, found),
                 categories_missing |-> SelectSeq(user_categories, missing),
                 total_items |-> TotalItems(user_categories, categories)])

get_recommendations_v2(v, req, uuid, uuid2, search_query, query_embedding, openai_ok, ranked_ids, rank_ok, raising) ==
    LET user_categories == req.user_profile.preferred_article_types
    IN  IF user_categories = <<>>
        THEN [success |-> FALSE, session_id |-> uuid2,
              categories |-> <<>>, categories_found |-> <<>>,
              categories_missing |-> <<>>, total_items |-> 0]
        ELSE
        Bind([c \in Range(user_categories) |->
                 CategoryResultV2(v, req, c, search_query, query_embedding,
                                  openai_ok, ranked_ids, rank_ok,
                                  c \in raising)],
             LAMBDA categories :
            LET found(c) == categories[c] # <<>>
                missing(c) == categories[c] = <<>>
            IN  [success |-> TRUE,
                 session_id |-> IF req.session_id # "" THEN req.session_id
                                ELSE uuid,
                 categories |-> categories,
                 categories_found |-> SelectSeq(user_categories, found),
                 categories_missing |-> SelectSeq(user_categories, missing),
                 total_items |-> TotalItems(user_categories, categories)])

(***************************************************************************)
(* Inputs of the handlers.                                                 *)
(***************************************************************************)
SessionIds == {"S1", "S2"}

Actions == {"like", "dislike", "save"}

QueryEmbeddings == {<<1, 0>>, <<1, 1>>, <<0, 0>>}

GenderFilters == {"", "Men", "Women"}

ArticleFilters == {<<>>, <<"Jeans">>, <<"Tshirts", "T-Shirts">>}


\* what the ranking call answers: a failure, or a list of ids
RankFails == [ok |-> FALSE, ids |-> <<>>]

Rankings == {RankFails, [ok |-> TRUE, ids |-> <<"4", "1">>]}

Request(sid, types, ex, top_k, per_category) ==
    [session_id |-> sid,
     user_profile |-> [gender |-> "Men", preferred_article_types |-> types],
     exclude_ids |-> ex, top_k |-> top_k, items_per_category |-> per_category]

\* the requests, each with what create_search_query_from_profile and
\* get_query_embedding answer for it
RunS1 == [req |-> Request("S1", <<>>, {}, 1, 0),
          search_query |-> "blue jeans", query_embedding |-> <<1, 0>>]

RunS2 == [req |-> Request("S2", <<"Jeans">>, {"2"}, 1, 1),
          search_query |-> "", query_embedding |-> <<0, 0>>]

RecommendRuns == {RunS1, RunS2}

\* feedback requests <<session id, product id, action>>
FeedbackInputs ==
    ({"S1"} \X {"1", "4"} \X {"like", "dislike"}) \cup {<<"S1", "1", "save">>}

RefreshExcludes == {{}, {"4"}}

\* the instants at which requests arrive
Instants == {0, 3700}

InstantsTTL == {0, 3500, 3700, 4000}

\* the catalog behind the session handlers
SessionCatalog == [i \in 1..4 |-> PoolRow(i)]

SessionVectorStates ==
    {LoadedFaiss(SessionCatalog), LoadedEmbedding(SessionCatalog),
     LoadedKeyword(SessionCatalog)}

Store == [cache |-> session_cache, last_cleanup |-> last_cleanup]

\* the ghost: a session that is not (or no longer) stored has no dislikes
Ghost(cache, base) ==
    [sid \in SessionIds |-> IF sid \in DOMAIN cache THEN base[sid] ELSE {}]

NoSessions == [sid \in {} |-> {}]

Idle == [pc |-> "idle"]

\* variant: the route without its ValueError handler
HttpStatusUnmapped(outcome) ==
    CASE outcome = "ok" -> 200
      [] OTHER -> 500

\* the route's mapping of the outcome of get_fresh_recommendations
HttpStatus(outcome) ==
    CASE outcome = "ok" -> 200
      [] outcome = "not_found" -> 404
      [] OTHER -> 500

MaxInflight == 1

Slots == 1..MaxInflight

(***************************************************************************)
(* Initial states.                                                         *)
(***************************************************************************)
\* _service_lock free; created, failed and published record the instances
\* of RecommendationService constructed, failed and assigned to the global
Unlocked == [holder |-> 0, created |-> 0, failed |-> {}, published |-> <<>>]

InitSessions ==
    /\ session_cache = NoSessions
    /\ last_cleanup = 0
    /\ now = 0
    /\ inflight = [i \in Slots |-> Idle]
    /\ call = [op |-> "init"]
    /\ resp = [op |-> "init"]
    /\ applied = [sid \in SessionIds |-> {}]

\* a service that was initialized and published before the first request:
\* Mode A has no background task, in Modes B and C the task has ended
InitCommon ==
    /\ InitSessions
    /\ recommendation_service = "published"
    /\ files = [styles |-> "configured", embeddings_csv |-> FALSE,
                index |-> SearchMode(vs) = "A",
                metadata |-> SearchMode(vs) = "A", rows |-> vs.df]
    /\ background = [pc |-> IF SearchMode(vs) = "A" THEN "none" ELSE "done",
                    i |-> 0, all_embeddings |-> <<>>]
    /\ service_lock = Unlocked

Init == vs \in SessionVectorStates /\ InitCommon

InitSearch == vs \in VectorStates /\ InitCommon

InitTTL == vs = LoadedKeyword(SessionCatalog) /\ InitCommon

(***************************************************************************)
(* Actions: one per handler.  A handler that never awaits an external call *)
(* runs to completion in one step of the event loop.                       *)
(***************************************************************************)
\* time passes between requests
Tick ==
    /\ UNCHANGED <<lifecycle, vs, session_cache, last_cleanup, inflight, call, resp,
                   applied>>
    /\ \E t \in Instants : t > now /\ now' = t

TickTTL ==
    /\ UNCHANGED <<lifecycle, vs, session_cache, last_cleanup, inflight, call, resp,
                   applied>>
    /\ \E t \in InstantsTTL : t > now /\ now' = t

\* VectorSearchService.similarity_search called directly
Search ==
    /\ call.op = "init"
    /\ UNCHANGED <<lifecycle, vs, session_cache, last_cleanup, now, inflight, applied>>
    /\ \E q \in QueryEmbeddings, k \in 0..MaxK, ex \in SUBSET {"1", "2"},
          sq \in SearchQueries, g \in GenderFilters, a \in ArticleFilters :
           /\ call' = [op |-> "similarity_search", query_embedding |-> q,
                       k |-> k, exclude_ids |-> ex, search_query |-> sq,
                       gender_filter |-> g, article_type_filter |-> a]
           /\ resp' = similarity_search(vs, q, k, ex, sq, g, a)

\* the end of get_recommendations: what it stores and answers
RecommendEffect(run, embed_ok, rank) ==
    \E r \in {get_recommendations(Store, now, vs, run.req, "S2",
                  run.search_query, run.query_embedding, embed_ok,
                  rank.ids, rank.ok)} :
        /\ session_cache' = r.st.cache
        /\ last_cleanup' = r.st.last_cleanup
        /\ call' = [op |-> "recommend", session_id |-> run.req.session_id,
                    exclude_ids |-> run.req.exclude_ids,
                    embed_ok |-> embed_ok]
        /\ resp' = [ok |-> r.ok, session_id |-> r.session_id,
                    items |-> IdsOf(r.items)]
        /\ applied' = Ghost(r.st.cache,
                            IF r.ok THEN [applied EXCEPT ![r.session_id] = {}]
                            ELSE applied)

\* POST /recommendations: get_recommendations with no other request running
\* between its awaits
RecommendOf(runs, rankings) ==
    /\ UNCHANGED <<lifecycle, vs, now, inflight>>
    /\ \E run \in runs, embed_ok \in BOOLEAN, rank \in rankings :
           RecommendEffect(run, embed_ok, rank)

Recommend == RecommendOf(RecommendRuns, Rankings)

\* get_recommendations step by step: the request arrives and the coroutine
\* suspends in create_search_query_from_profile; seen records the dislikes
\* the session held when the request arrived
RecommendStart ==
    /\ UNCHANGED <<lifecycle, vs, session_cache, last_cleanup, now, call, resp, applied>>
    /\ \E i \in Slots :
           /\ inflight[i].pc = "idle"
           /\ inflight' = [inflight EXCEPT ![i] =
                               [pc |-> "query", run |-> RunS1,
                                seen |-> applied[RunS1.req.session_id]]]

\* the query text arrives; the coroutine suspends in get_query_embedding
RecommendQueried ==
    /\ UNCHANGED <<lifecycle, vs, session_cache, last_cleanup, now, call, resp, applied>>
    /\ \E i \in Slots :
           /\ inflight[i].pc = "query"
           /\ inflight' = [inflight EXCEPT ![i].pc = "embed"]

\* the embedding arrives (or the call raises and the request fails); the
\* searches run and the coroutine suspends in enhance_recommendations
RecommendEmbedded ==
    /\ UNCHANGED <<lifecycle, vs, now>>
    /\ \E i \in Slots, embed_ok \in BOOLEAN :
           /\ inflight[i].pc = "embed"
           /\ IF embed_ok
              THEN /\ inflight' = [inflight EXCEPT ![i].pc = "rank"]
                   /\ UNCHANGED <<session_cache, last_cleanup, call, resp,
                                  applied>>
              ELSE /\ inflight' = [inflight EXCEPT ![i] = Idle]
                   /\ RecommendEffect(inflight[i].run, FALSE, RankFails)

\* the ranking arrives; the session is stored and the request answered
RecommendStore ==
    /\ UNCHANGED <<lifecycle, vs, now>>
    /\ \E i \in Slots, rank \in Rankings :
           /\ inflight[i].pc = "rank"
           /\ inflight' = [inflight EXCEPT ![i] = Idle]
           /\ RecommendEffect(inflight[i].run, TRUE, rank)

\* POST /recommendations/v2
RecommendV2Of(runs, raisings) ==
    /\ UNCHANGED <<lifecycle, vs, session_cache, last_cleanup, now, inflight, applied>>
    /\ \E run \in runs, openai_ok \in BOOLEAN, rank \in Rankings,
          raising \in raisings :
       \E r \in {get_recommendations_v2(vs, run.req, "S2", "S1",
                     run.search_query, run.query_embedding, openai_ok,
                     rank.ids, rank.ok, raising)} :
           /\ call' = [op |-> "recommend_v2",
                       session_id |-> run.req.session_id,
                       exclude_ids |-> run.req.exclude_ids,
                       run |-> run, openai_ok |-> openai_ok, rank |-> rank,
                       raising |-> raising]
           /\ resp' = [ok |-> r.success, session_id |-> r.session_id,
                       categories |-> [c \in DOMAIN r.categories |->
                                          IdsOf(r.categories[c])],
                       categories_found |-> r.categories_found,
                       categories_missing |-> r.categories_missing,
                       total_items |-> r.total_items]

RecommendV2 == RecommendV2Of(RecommendRuns, {{}})

\* POST /feedback with a session id
FeedbackOf(inputs) ==
    /\ UNCHANGED <<lifecycle, vs, now, inflight>>
    /\ \E f \in inputs :
       \E r \in {process_feedback(Store, now, vs, f[1], f[2], f[3])} :
           /\ session_cache' = r.st.cache
           /\ last_cleanup' = r.st.last_cleanup
           /\ call' = [op |-> "feedback", session_id |-> f[1],
                       product_id |-> f[2], action |-> f[3]]
           /\ resp' = [success |-> r.success, retained |-> r.retained,
                       has_fresh |-> r.has_fresh, items |-> IdsOf(r.items),
                       searched |-> r.searched, age |-> r.age]
           /\ applied' = Ghost(r.st.cache,
                               IF f[3] = "dislike" /\ r.retained
                               THEN [applied EXCEPT ![f[1]] = @ \cup {f[2]}]
                               ELSE applied)

Feedback == FeedbackOf(FeedbackInputs)

\* POST /refresh
RefreshOf(sids, excludes, counts) ==
    /\ UNCHANGED <<lifecycle, vs, now, inflight>>
    /\ \E sid \in sids, ex \in excludes, count \in counts :
       \E r \in {get_fresh_recommendations(Store, now, vs, sid, ex, count)} :
           /\ session_cache' = r.st.cache
           /\ last_cleanup' = r.st.last_cleanup
           /\ call' = [op |-> "refresh", session_id |-> sid,
                       exclude_ids |-> ex, count |-> count]
           /\ resp' = [http |-> HttpStatus(r.outcome),
                       items |-> IdsOf(r.items), searched |-> r.searched,
                       age |-> r.age]
           /\ applied' = Ghost(r.st.cache, applied)

Refresh == RefreshOf(SessionIds, RefreshExcludes, 1..MaxK)

\* get_session_context, the read the chat route makes
GetSessionContextOf(sids) ==
    /\ UNCHANGED <<lifecycle, vs, now, inflight>>
    /\ \E sid \in sids :
       \E g \in {get_session_data(Store, now, sid)} :
           /\ session_cache' = g.st.cache
           /\ last_cleanup' = g.st.last_cleanup
           /\ call' = [op |-> "get_session_context", session_id |-> sid]
           /\ resp' = [found |-> g.found,
                       age |-> IF g.found
                               THEN now - g.st.cache[sid].created_at ELSE -1]
           /\ applied' = Ghost(g.st.cache, applied)

GetSessionContext == GetSessionContextOf(SessionIds)

\* get_service_status, the read the health route makes
ServiceStatus ==
    /\ UNCHANGED <<lifecycle, vs, now, inflight>>
    /\ \E c \in {cleanup_expired_sessions(Store, now)} :
           /\ session_cache' = c.cache
           /\ last_cleanup' = c.last_cleanup
           /\ call' = [op |-> "get_service_status"]
           /\ resp' = [active_sessions |-> Cardinality(DOMAIN c.cache),
                       cleaned_up |-> Cardinality(DOMAIN session_cache
                                                      \ DOMAIN c.cache)]
           /\ applied' = Ghost(c.cache, applied)

(***************************************************************************)
(* Specifications.                                                         *)
(***************************************************************************)
\* the session handlers, one request at a time
Next ==
    \/ Tick
    \/ Recommend
    \/ RecommendV2
    \/ Feedback
    \/ Refresh
    \/ GetSessionContext
    \/ ServiceStatus

Spec == Init /\ [][Next]_vars

\* the search function alone, over every catalog and argument
NextSearch == Search

SpecSearch == InitSearch /\ [][NextSearch]_vars

\* one session under a finer clock
RecommendTTL == RecommendOf({RunS1}, {RankFails})

FeedbackTTL == FeedbackOf({<<"S1", "1", "dislike">>})

RefreshTTL == RefreshOf({"S1"}, {{}}, {1})

GetSessionContextTTL == GetSessionContextOf({"S1"})

NextTTL ==
    \/ TickTTL
    \/ RecommendTTL
    \/ FeedbackTTL
    \/ RefreshTTL
    \/ GetSessionContextTTL
    \/ ServiceStatus

SpecTTL == InitTTL /\ [][NextTTL]_vars

\* the sweep over two sessions of different ages
RecommendSweep == RecommendOf({RunS1, RunS2}, {RankFails})

GetSessionContextSweep == GetSessionContextOf(SessionIds)

NextSweep ==
    \/ TickTTL
    \/ RecommendSweep
    \/ FeedbackTTL
    \/ RefreshTTL
    \/ GetSessionContextSweep
    \/ ServiceStatus

SpecSweep == InitTTL /\ [][NextSweep]_vars

\* refreshes of any count, 0 included, beside two sessions of different
\* ages; the index search raises for a count of 0
RefreshAnyCount == RefreshOf(SessionIds, RefreshExcludes, 0..MaxK)

NextRefresh ==
    \/ TickTTL
    \/ RecommendSweep
    \/ FeedbackTTL
    \/ RefreshAnyCount

SpecRefresh == Init /\ [][NextRefresh]_vars

\* the sweep when the clock advances and store operations keep occurring;
\* a recommend that fails before it stores is no store operation
StoreOperations ==
    \/ FeedbackTTL
    \/ RefreshTTL
    \/ GetSessionContextSweep
    \/ ServiceStatus

SpecEvict ==
    /\ InitTTL
    /\ [][NextSweep]_vars
    /\ WF_vars(TickTTL)
    /\ WF_vars(StoreOperations)

\* requests on one session interleaved at the awaits of get_recommendations
RefreshConc == RefreshOf({"S1"}, RefreshExcludes, 1..MaxK)

NextConc ==
    \/ RecommendStart
    \/ RecommendQueried
    \/ RecommendEmbedded
    \/ RecommendStore
    \/ Feedback
    \/ RefreshConc

SpecConc == Init /\ [][NextConc]_vars

(***************************************************************************)
(* Properties of the search strategies, checked under SpecSearch.          *)
(***************************************************************************)


ReturnedIds(r) == {r.results[i][1].id : i \in 1..Len(r.results)}

\* C1: whatever the strategy, catalog, k, filters and exclude_ids, no product
\* returned by similarity_search has an id in exclude_ids.
ExcludedNeverReturned ==
    call.op = "similarity_search" =>
        ReturnedIds(resp) \cap call.exclude_ids = {}

\* a search that returns products and from which the exclusion removed one
\* that the same search without exclusions returns
ExclusionActed ==
    /\ call.op = "similarity_search"
    /\ resp.results # <<>>
    /\ ReturnedIds(similarity_search(vs, call.query_embedding, call.k, {},
                       call.search_query, call.gender_filter,
                       call.article_type_filter)) \cap call.exclude_ids # {}

ReturnedItems(r) == {r.results[i][1] : i \in 1..Len(r.results)}

\* C13: with a gender filter g every product returned has gender g or
\* "Unisex", and with an article-type filter every product returned has an
\* article type in the filter list, whatever the strategy.
FiltersRespected ==
    call.op = "similarity_search" =>
        /\ call.gender_filter # "" =>
               \A item \in ReturnedItems(resp) :
                   item.gender \in {call.gender_filter, "Unisex"}
        /\ call.article_type_filter # <<>> =>
               \A item \in ReturnedItems(resp) :
                   item.article_type \in Range(call.article_type_filter)

\* a search with both filters that returns products, while the same search
\* without filters returns a product of another gender and one of another
\* article type
FiltersActed ==
    /\ call.op = "similarity_search"
    /\ call.gender_filter # ""
    /\ call.article_type_filter # <<>>
    /\ resp.results # <<>>
    /\ \E r \in {similarity_search(vs, call.query_embedding, call.k,
                     call.exclude_ids, call.search_query, "", <<>>)} :
           /\ \E item \in ReturnedItems(r) :
                  item.gender \notin {call.gender_filter, "Unisex"}
           /\ \E item \in ReturnedItems(r) :
                  item.article_type \notin Range(call.article_type_filter)

\* the catalog rows a search can rank: every row, except that a keyword
\* search with a query text ranks only the rows its terms match
Rankable(p) ==
    SearchMode(vs) = "C" /\ call.search_query # "" =>
        ScoreLess(<<0, 1>>,
                  calculate_text_similarity(p, SearchTerms(call.search_query)))

\* C14: with gender filter Men or Women, a "Unisex" row that is not excluded
\* and passes the article-type filter is not dropped: when no more than k
\* rows are eligible (gender g or Unisex), every such Unisex row is returned.
UnisexKept ==
    call.op = "similarity_search" /\ call.gender_filter \in {"Men", "Women"} =>
        LET eligible == {i \in 1..Len(vs.df) :
                /\ ~Excluded(vs.df[i], call.exclude_ids)
                /\ ~ArticleDrops(vs.df[i], call.article_type_filter)
                /\ vs.df[i].gender \in {call.gender_filter, "Unisex"}
                /\ Rankable(vs.df[i])}
        IN  Cardinality(eligible) <= call.k =>
                \A i \in eligible :
                    vs.df[i].gender = "Unisex" =>
                        ToString(vs.df[i].id) \in ReturnedIds(resp)

\* the ids of the catalog rows that the exclusion and the two filter tests
\* of the strategies let through
EligibleIds ==
    {ToString(vs.df[i].id) : i \in {j \in 1..Len(vs.df) :
        /\ ~Excluded(vs.df[j], call.exclude_ids)
        /\ ~GenderDrops(vs.df[j], call.gender_filter)
        /\ ~ArticleDrops(vs.df[j], call.article_type_filter)}}

\* C15: similarity_search returns at most k results, and when fewer than k
\* catalog rows are eligible it returns exactly the eligible rows, each
\* once, without an error, in every strategy, with or without a query text.
AllEligibleReturned ==
    call.op = "similarity_search" =>
        /\ Len(resp.results) <= call.k
        /\ Cardinality(EligibleIds) < call.k =>
               /\ ~resp.error
               /\ ReturnedIds(resp) = EligibleIds
               /\ Len(resp.results) = Cardinality(EligibleIds)

\* the keyword strategy without a query text cuts to the first k rows before
\* it filters: the only eligible row lies behind them and is not returned
EligibleRowCutOff ==
    /\ call.op = "similarity_search"
    /\ SearchMode(vs) = "C"
    /\ call.search_query = ""
    /\ Cardinality(EligibleIds) < call.k
    /\ ReturnedIds(resp) # EligibleIds

\* the catalog row of a returned product
RowOf(id) == CHOOSE i \in 1..Len(vs.df) : ToString(vs.df[i].id) = id

\* C16: in the embedding and keyword strategies the results come by
\* non-increasing score, and results of equal score in catalog row order.
SortedStable ==
    call.op = "similarity_search" /\ SearchMode(vs) \in {"B", "C"} =>
        \A i, j \in 1..Len(resp.results) :
            i < j =>
                /\ ~ScoreLess(resp.results[i][2], resp.results[j][2])
                /\ ScoreEq(resp.results[i][2], resp.results[j][2]) =>
                       RowOf(resp.results[i][1].id) < RowOf(resp.results[j][1].id)

\* a search with a query that returns two products of equal score, both
\* from behind an eligible first row which scores lower and is not returned
TieBehindLowerRow ==
    /\ call.op = "similarity_search"
    /\ SearchMode(vs) \in {"B", "C"}
    /\ SearchMode(vs) = "C" => call.search_query # ""
    /\ Len(resp.results) = 2
    /\ ScoreEq(resp.results[1][2], resp.results[2][2])
    /\ ToString(vs.df[1].id) \in EligibleIds \ ReturnedIds(resp)

(***************************************************************************)
(* Properties of the session handlers, checked under Spec.                 *)
(***************************************************************************)
\* a step of a handler (time stands still) that answers a call of this kind
HandlerStep(op) == call'.op = op /\ now' = now

\* the store after the step differs from the store before it only by the
\* sessions the sweep evicted, each older than the TTL
OnlySwept ==
    /\ \A s \in DOMAIN session_cache' :
           s \in DOMAIN session_cache /\ session_cache'[s] = session_cache[s]
    /\ \A s \in DOMAIN session_cache \ DOMAIN session_cache' :
           now - session_cache[s].created_at > session_ttl

\* C2: once a dislike of P has been applied to a stored session, no later
\* get_fresh_recommendations of that session returns P, the fresh item of
\* the dislike call included, whatever likes, saves and refreshes intervene.
DislikedNeverFresh ==
    call.op \in {"feedback", "refresh"} =>
        \A i \in 1..Len(resp.items) :
            resp.items[i] \notin applied[call.session_id]

\* a refresh returns products for a session in which a product was disliked
\* and liked afterwards
RefreshAfterDislikeAndLike ==
    /\ call.op = "refresh"
    /\ resp.items # <<>>
    /\ \E p \in applied[call.session_id] :
           p \in Range(session_cache[call.session_id].user_interactions.liked)

\* C3: in every stored session exclude_ids contains every id of
\* user_interactions.disliked.
ExcludeCoversDisliked ==
    \A s \in DOMAIN session_cache :
        Range(session_cache[s].user_interactions.disliked)
            \subseteq session_cache[s].exclude_ids

\* a session holds two disliked products after a refresh with further
\* exclusions
TwoDislikedStored ==
    /\ call.op = "refresh"
    /\ call.exclude_ids # {}
    /\ call.session_id \in DOMAIN session_cache
    /\ Len(session_cache[call.session_id].user_interactions.disliked) = 2

\* C4: a feedback or refresh call on an existing session leaves exclude_ids
\* a superset of what it was; a like of a disliked product removes nothing.
ExcludeOnlyGrows ==
    [][(HandlerStep("feedback") \/ HandlerStep("refresh")) =>
           \A s \in DOMAIN session_cache \cap DOMAIN session_cache' :
               session_cache[s].exclude_ids
                   \subseteq session_cache'[s].exclude_ids]_vars

\* a like of a product disliked earlier in the session has been applied and
\* the product is still excluded
LikedStillExcluded ==
    /\ call.op = "feedback"
    /\ call.action = "like"
    /\ resp.retained
    /\ call.product_id \in applied[call.session_id]
    /\ call.product_id \in session_cache[call.session_id].exclude_ids
    /\ call.product_id
           \in Range(session_cache[call.session_id].user_interactions.liked)

\* C5: no product id is in both liked and disliked of a stored session.
LikedDislikedDisjoint ==
    \A s \in DOMAIN session_cache :
        Range(session_cache[s].user_interactions.liked)
            \cap Range(session_cache[s].user_interactions.disliked) = {}

\* a dislike has been applied to one product while another, disliked
\* earlier and liked since, is in liked only
DislikeBesideRelikedProduct ==
    /\ call.op = "feedback"
    /\ call.action = "dislike"
    /\ resp.retained
    /\ call.session_id \in DOMAIN session_cache
    /\ \E p \in applied[call.session_id] \ {call.product_id} :
           p \in Range(session_cache[call.session_id].user_interactions.liked)

\* C18: a failing text-embedding call does not abort recommend: when
\* get_query_embedding fails after its retries, the request still succeeds,
\* searching with a degraded (zero) query vector.
EmbeddingFailureTolerated ==
    call.op = "recommend" /\ ~call.embed_ok => resp.ok

\* C25: in every stored session the liked, disliked and saved lists are
\* pairwise disjoint.
InteractionsDisjoint ==
    \A s \in DOMAIN session_cache :
        LET ui == session_cache[s].user_interactions
        IN  /\ Range(ui.liked) \cap Range(ui.disliked) = {}
            /\ Range(ui.saved) \cap Range(ui.liked) = {}
            /\ Range(ui.saved) \cap Range(ui.disliked) = {}

\* C22: a recommend that carries the id of a session which is stored and
\* not older than the TTL reuses it: the session's exclude_ids after the
\* call contain the exclude_ids it had before.
RecommendKeepsExcludes ==
    [][(/\ HandlerStep("recommend")
        /\ resp'.ok
        /\ call'.session_id \in DOMAIN session_cache
        /\ ~Expired(session_cache[call'.session_id], now))
           => /\ call'.session_id \in DOMAIN session_cache'
              /\ session_cache[call'.session_id].exclude_ids
                     \subseteq session_cache'[call'.session_id].exclude_ids]_vars

\* C6: every successful recommend call, v1 or v2, stores under the session
\* id it returns a session with the request's exclusions and empty liked,
\* disliked and saved lists.
RecommendStoresSession ==
    (call.op \in {"recommend", "recommend_v2"} /\ resp.ok) =>
        /\ resp.session_id \in DOMAIN session_cache
        /\ session_cache[resp.session_id].exclude_ids = call.exclude_ids
        /\ session_cache[resp.session_id].user_interactions
               = [liked |-> <<>>, disliked |-> <<>>, saved |-> <<>>]

\* C7 as stated: get_fresh_recommendations for a session id that is not
\* stored answers 404, searches nothing and leaves the store as it was.
RefreshAbsentLeavesStore ==
    [][(HandlerStep("refresh") /\ call'.session_id \notin DOMAIN session_cache)
           => /\ resp'.http = 404
              /\ ~resp'.searched
              /\ session_cache' = session_cache]_vars

\* C7: get_fresh_recommendations for a session id that is not stored answers
\* 404, searches nothing, creates no session and modifies none; the store
\* changes only by the sweep evicting sessions older than the TTL.
RefreshAbsentOnlySweeps ==
    [][(HandlerStep("refresh") /\ call'.session_id \notin DOMAIN session_cache)
           => /\ resp'.http = 404
              /\ ~resp'.searched
              /\ OnlySwept]_vars

\* a refresh of an absent session has answered 404 while another session
\* is stored
RefreshAbsentBesideStored ==
    /\ call.op = "refresh"
    /\ resp.http = 404
    /\ call.session_id \notin DOMAIN session_cache
    /\ DOMAIN session_cache # {}

\* C8 as stated: process_feedback for a session id that is not stored
\* reports success, retains nothing and leaves the store as it was.
FeedbackAbsentLeavesStore ==
    [][(HandlerStep("feedback") /\ call'.session_id \notin DOMAIN session_cache)
           => /\ resp'.success
              /\ ~resp'.retained
              /\ ~resp'.searched
              /\ session_cache' = session_cache]_vars

\* C8: process_feedback for a session id that is not stored reports success,
\* retains nothing and creates no session, also for a dislike whose follow-up
\* lookup fails; the store changes only by the sweep evicting sessions older
\* than the TTL.
FeedbackAbsentOnlySweeps ==
    [][(HandlerStep("feedback") /\ call'.session_id \notin DOMAIN session_cache)
           => /\ resp'.success
              /\ ~resp'.retained
              /\ ~resp'.searched
              /\ OnlySwept]_vars

\* a dislike for an absent session has reported success while another
\* session is stored
DislikeAbsentBesideStored ==
    /\ call.op = "feedback"
    /\ call.action = "dislike"
    /\ resp.success
    /\ ~resp.retained
    /\ ~resp.has_fresh
    /\ call.session_id \notin DOMAIN session_cache
    /\ DOMAIN session_cache # {}

(***************************************************************************)
(* Concurrency, checked under SpecConc.                                    *)
(***************************************************************************)
\* C9: interleaved requests on one session id lose no update: a dislike
\* applied while a recommend of the same session id was suspended is still
\* in the session's exclude_ids when that recommend completes.
NoLostDislike ==
    [][\A i \in Slots :
           (inflight[i].pc = "rank" /\ inflight'[i].pc = "idle"
            /\ inflight[i].run.req.session_id \in DOMAIN session_cache')
           => (applied[inflight[i].run.req.session_id] \ inflight[i].seen)
                  \subseteq session_cache'[inflight[i].run.req.session_id]
                                .exclude_ids]_vars

(***************************************************************************)
(* Expiry, checked under SpecTTL.                                          *)
(***************************************************************************)
\* the age of the session a call returned or used, -1 when it found none
UsedAge ==
    IF call.op \in {"get_session_context", "refresh", "feedback"}
    THEN resp.age ELSE -1

\* C10 as stated: no session older than the TTL is returned or used.
ExpiredNeverUsed == UsedAge <= session_ttl

\* C10: no session older than the TTL plus the sweep interval is returned
\* or used; a session older than the TTL alone is absent only once a sweep
\* has run, and the sweep is skipped within cleanup_interval of the last.
StaleNeverUsed == UsedAge < session_ttl + cleanup_interval

\* a session older than the TTL has been returned between two sweeps
ExpiredReturnedBetweenSweeps ==
    /\ call.op = "get_session_context"
    /\ resp.found
    /\ resp.age > session_ttl
    /\ now - last_cleanup < cleanup_interval

\* C23: a feedback or refresh call on a stored session never changes its
\* created_at, and last_accessed is never before created_at, so the session
\* is evictable one TTL after its creation whatever happens later.
CreatedAtFixed ==
    [][(HandlerStep("feedback") \/ HandlerStep("refresh")) =>
           \A s \in DOMAIN session_cache \cap DOMAIN session_cache' :
               /\ session_cache'[s].created_at = session_cache[s].created_at
               /\ session_cache'[s].last_accessed
                      >= session_cache'[s].created_at]_vars

\* the session a handler step works on
Touched == IF call'.op = "get_service_status" THEN {} ELSE {call'.session_id}

\* C24: a scan runs only when cleanup_interval has passed since the one
\* before; a call inside the interval removes no session; a scan removes
\* exactly the sessions older than the TTL and changes no other session.
SweepThrottled ==
    [][now' = now =>
          IF last_cleanup' # last_cleanup
          THEN /\ now - last_cleanup >= cleanup_interval
               /\ \A s \in DOMAIN session_cache :
                      IF Expired(session_cache[s], now)
                      THEN s \notin DOMAIN session_cache'
                           \/ (call'.op = "recommend" /\ s \in Touched)
                      ELSE /\ s \in DOMAIN session_cache'
                           /\ s \notin Touched =>
                                  session_cache'[s] = session_cache[s]
          ELSE DOMAIN session_cache \subseteq DOMAIN session_cache']_vars

\* a scan has removed one session and kept the other
ScanRemovedOneOfTwo ==
    /\ call.op = "get_service_status"
    /\ last_cleanup = now
    /\ resp.cleaned_up = 1
    /\ resp.active_sessions = 1

Overdue(s) ==
    /\ s \in DOMAIN session_cache
    /\ now - session_cache[s].created_at > session_ttl

\* C28: a stored session older than the TTL is eventually evicted, unless
\* an operation writes to it first, when store operations keep occurring;
\* the first store operation at least cleanup_interval after the previous
\* sweep removes it, and only a successful recommend for its id stores it
\* again.
EvictedEventually ==
    /\ \A s \in SessionIds :
           Overdue(s) ~> (s \notin DOMAIN session_cache \/ ~Overdue(s))
    /\ [][(/\ now' = now
           /\ now - last_cleanup >= cleanup_interval
           /\ call'.op = "recommend" => resp'.ok) =>
              \A s \in SessionIds :
                  Overdue(s) =>
                      \/ s \notin DOMAIN session_cache'
                      \/ call'.op = "recommend" /\ call'.session_id = s]_vars
    /\ [][\A s \in DOMAIN session_cache' \ DOMAIN session_cache :
              /\ call'.op = "recommend"
              /\ call'.session_id = s
              /\ resp'.ok]_vars

\* a status call has swept the last stored session away
LastSessionSwept ==
    /\ call.op = "get_service_status"
    /\ resp.cleaned_up >= 1
    /\ session_cache = NoSessions

(***************************************************************************)
(* get_recommendations_v2 alone, over multi-category requests.             *)
(***************************************************************************)
CategoryLists ==
    {<<"Jeans">>, <<"Jeans", "Tshirts">>, <<"Tshirts", "Jeans", "Jeans">>,
     <<"Casual Shoes", "Jeans">>}

RunsV2 ==
    {[req |-> Request("S1", types, ex, 1, ipc),
      search_query |-> "blue jeans", query_embedding |-> <<1, 0>>] :
        types \in CategoryLists, ex \in {{}, {"1"}}, ipc \in {0, 1}}

Raisings == SUBSET {"Jeans", "Tshirts"}

RecommendV2Any == RecommendV2Of(RunsV2, Raisings)

NextV2 == RecommendV2Any

SpecV2 == Init /\ [][NextV2]_vars

RECURSIVE SumLens(_, _)
SumLens(categories, keys) ==
    IF keys = {} THEN 0
    ELSE LET c == CHOOSE x \in keys : TRUE
         IN  Len(categories[c]) + SumLens(categories, keys \ {c})

RequestedV2 == Range(call.run.req.user_profile.preferred_article_types)

\* C11: a successful v2 response has a key for every requested category,
\* lists each requested category in exactly one of categories_found and
\* categories_missing, in categories_missing exactly when its item list is
\* empty, and total_items is the sum of the lengths of the item lists.
CategoryStructureKept ==
    (call.op = "recommend_v2" /\ resp.ok) =>
        /\ DOMAIN resp.categories = RequestedV2
        /\ \A c \in RequestedV2 :
               /\ (c \in Range(resp.categories_found))
                      # (c \in Range(resp.categories_missing))
               /\ (c \in Range(resp.categories_missing))
                      <=> (resp.categories[c] = <<>>)
        /\ Range(resp.categories_found) \cup Range(resp.categories_missing)
               = RequestedV2
        /\ resp.total_items = SumLens(resp.categories, DOMAIN resp.categories)

\* a successful response to a request that names one category twice, with
\* one category found and one empty
RepeatedFoundAndMissing ==
    /\ call.op = "recommend_v2"
    /\ resp.ok
    /\ Len(call.run.req.user_profile.preferred_article_types) = 3
    /\ resp.categories["Jeans"] # <<>>
    /\ resp.categories["Tshirts"] = <<>>
    /\ call.raising = {}

\* what the same request answers when no search raises
BaselineV2 ==
    get_recommendations_v2(vs, call.run.req, "S2", "S1",
        call.run.search_query, call.run.query_embedding, call.openai_ok,
        call.rank.ids, call.rank.ok, {})

\* C12: when the search of one category raises, that category has an empty
\* item list and is in categories_missing, every other category has the
\* items it has when nothing raises, and the response is a success.
CategoryFailureIsolated ==
    (call.op = "recommend_v2" /\ RequestedV2 \cap call.raising # {}) =>
        /\ resp.ok
        /\ \A c \in RequestedV2 \cap call.raising :
               /\ resp.categories[c] = <<>>
               /\ c \in Range(resp.categories_missing)
        /\ \A c \in RequestedV2 \ call.raising :
               /\ resp.categories[c] = IdsOf(BaselineV2.categories[c])
               /\ (c \in Range(resp.categories_missing))
                      <=> (c \in Range(BaselineV2.categories_missing))

\* the search of Tshirts raised in a two-category request and Jeans has
\* its items
OneCategoryRaised ==
    /\ call.op = "recommend_v2"
    /\ call.raising = {"Tshirts"}
    /\ call.run.req.user_profile.preferred_article_types
           = <<"Jeans", "Tshirts">>
    /\ resp.ok
    /\ resp.categories["Jeans"] # <<>>
    /\ resp.categories_missing = <<"Tshirts">>

(***************************************************************************)
(* enhance_recommendations alone, over every answer of the ranking model:  *)
(* candidate lists as the searches return them (one item per catalog id)   *)
(* and rankings with known, unknown, missing and repeated ids.             *)
(***************************************************************************)
MaxRanked == 3

RankedIds == {"1", "2", "4", "9"}

RankedIdLists == UNION {[1..n -> RankedIds] : n \in 0..MaxRanked}

Candidates ==
    {[i \in 1..Len(s) |-> create_product_item(PoolRow(s[i]), <<1, 2>>)] :
        s \in {q \in UNION {[1..n -> {1, 2, 4}] : n \in 0..3} :
                  \A i, j \in 1..Len(q) : q[i] = q[j] => i = j}}

EnhanceRecommendations ==
    /\ call.op = "init"
    /\ UNCHANGED <<lifecycle, vs, session_cache, last_cleanup, now, inflight, applied>>
    /\ \E recommendations \in Candidates, ranked_ids \in RankedIdLists,
          ok \in BOOLEAN :
           /\ call' = [op |-> "enhance_recommendations",
                       recommendations |-> recommendations,
                       ranked_ids |-> ranked_ids, ok |-> ok]
           /\ resp' = [items |-> enhance_recommendations(recommendations,
                                     ranked_ids, ok)]

NextEnhance == EnhanceRecommendations

SpecEnhance == InitTTL /\ [][NextEnhance]_vars

\* C17: whatever ids the ranking model answers, the list returned holds
\* exactly the input candidates, each once; when the ranking call or its
\* parsing fails, the input list is returned in its order.
OnlyReorders ==
    call.op = "enhance_recommendations" =>
        /\ Len(resp.items) = Len(call.recommendations)
        /\ \A item \in Range(call.recommendations) :
               Cardinality({i \in 1..Len(resp.items) :
                               resp.items[i] = item}) = 1
        /\ ~call.ok => resp.items = call.recommendations

\* the ranking names a candidate twice and the candidate is returned twice
RepeatedIdDuplicates ==
    /\ call.op = "enhance_recommendations"
    /\ call.ok
    /\ call.recommendations # <<>>
    /\ call.ranked_ids = <<call.recommendations[1].id,
                           call.recommendations[1].id>>
    /\ Len(resp.items) = Len(call.recommendations) + 1

(***************************************************************************)
(* The lifecycle of the service: lazy initialization on the first request  *)
(* that needs it, load_or_create_index over the data files, and the        *)
(* background task that upgrades the keyword mode to the embedding mode.   *)
(* initialize and load_or_create_index never suspend (the only await that  *)
(* reaches another coroutine, _generate_embeddings_immediate, raises       *)
(* AttributeError before it awaits), so a dependency resolution is one     *)
(* step; the background task suspends in get_embeddings_batch only.        *)
(***************************************************************************)
\* rows sent in one get_embeddings_batch call (batch_size, 100 in the code,
\* scaled to the catalogs of the model)
MaxBatch == 2

\* calls of initialize explored while the service stays unavailable
MaxAttempts == 2

DiskCatalogs == {SessionCatalog, <<PoolRow(3), PoolRow(1)>>}

\* styles: where the styles CSV is found; embeddings_csv: the CSV with the
\* embeddings column exists; index: faiss imports and the index and
\* metadata files exist; metadata: the metadata file unpickles; rows: the
\* catalog those files hold
FileStates ==
    [styles : {"configured", "alternative", "missing"},
     embeddings_csv : BOOLEAN, index : BOOLEAN, metadata : BOOLEAN,
     rows : DiskCatalogs]

\* VectorSearchService.__init__
NotLoaded ==
    [fallback_mode |-> TRUE, FAISS_AVAILABLE |-> FALSE, dimension |-> 0,
     index |-> [loaded |-> FALSE, vectors |-> <<>>],
     metadata |-> <<>>, df |-> <<>>,
     products_with_embeddings |-> <<>>, products_data |-> <<>>]

NoTask == [pc |-> "none", i |-> 0, all_embeddings |-> <<>>]

\* variant: a missing CSV taken for an empty catalog
initialize_embedding_modeLenient(v, f) ==
    [success |-> TRUE,
     v |-> [v EXCEPT !.fallback_mode = FALSE]]

initialize_embedding_mode(v, f) ==
    IF f.styles = "missing" THEN [success |-> FALSE, v |-> v]
    ELSE [success |-> TRUE,
          v |-> [v EXCEPT !.df = WithoutEmbedding(f.rows),
                          !.products_data = WithoutEmbedding(f.rows),
                          !.fallback_mode = FALSE]]

\* _generate_embeddings_immediate: self.embeddings_generator is assigned
\* nowhere, so reading it raises AttributeError before anything is awaited,
\* whether or not the embeddings service answers (embeds_ok); the handler
\* empties the list
generate_embeddings_immediate(v, embeds_ok) ==
    [v EXCEPT !.products_with_embeddings = <<>>]

\* returns [success, v, task]; task: the background task was created
load_or_create_index(v, f, embeds_ok) ==
    IF f.index
    THEN IF f.metadata /\ (f.embeddings_csv \/ f.styles = "configured")
         THEN [success |-> TRUE, task |-> FALSE,
               v |-> [LoadedFaiss(f.rows) EXCEPT !.df =
                         IF f.embeddings_csv THEN f.rows
                         ELSE WithoutEmbedding(f.rows)]]
         \* pickle.load raises after the index was read, or pd.read_csv
         \* raises after index and metadata were read; the handler returns
         \* _initialize_embedding_mode()
         ELSE Bind(initialize_embedding_mode(
                       [v EXCEPT !.FAISS_AVAILABLE = TRUE,
                                 !.dimension = LoadedFaiss(f.rows).dimension,
                                 !.index = LoadedFaiss(f.rows).index,
                                 !.metadata =
                                     IF f.metadata
                                     THEN LoadedFaiss(f.rows).metadata
                                     ELSE <<>>], f),
                   LAMBDA r : [success |-> r.success, task |-> FALSE,
                               v |-> r.v])
    ELSE Bind(initialize_embedding_mode(v, f), LAMBDA r :
             IF r.success /\ r.v.products_data # <<>>
             THEN Bind(generate_embeddings_immediate(r.v, embeds_ok),
                       LAMBDA g :
                           [success |-> TRUE,
                            task |-> g.products_with_embeddings = <<>>,
                            v |-> g])
             ELSE [success |-> r.success, task |-> FALSE, v |-> r.v])

\* main.get_or_create_recommendation_service: returns the global, the fields
\* of the vector service it holds, and whether initialize ran
get_or_create_recommendation_service(service, v, f, embeds_ok) ==
    IF service # "None"
    THEN [service |-> service, v |-> v, task |-> FALSE,
          attempted |-> FALSE, success |-> FALSE]
    ELSE Bind(load_or_create_index(NotLoaded, f, embeds_ok), LAMBDA r :
             IF r.success
             THEN [service |-> "published", v |-> r.v, task |-> r.task,
                   attempted |-> TRUE, success |-> TRUE]
             ELSE [service |-> "None", v |-> NotLoaded, task |-> FALSE,
                   attempted |-> TRUE, success |-> FALSE])

\* the embeddings model's answer for one row
EmbeddingOf(product) == PoolRow(product.id).embedding

\* [0.0] * 1536
zero_embedding == <<0, 0>>

\* the combine loop: one copy of every product, with its embedding
WithEmbeddings(products, all_embeddings) ==
    [j \in 1..Min(Len(products), Len(all_embeddings)) |->
        [products[j] EXCEPT !.embedding = all_embeddings[j]]]

\* variant: the rows of each batch published as soon as the batch returns
EmbeddingBatchReturnsAppending(v, task, outcome) ==
    LET n == Len(v.products_data)
        last == Min(task.i + MaxBatch, n)
        batch == SubSeq(v.products_data, task.i + 1, last)
        all == task.all_embeddings \o
                   [j \in 1..Len(batch) |->
                       IF outcome = "ok" THEN EmbeddingOf(batch[j])
                       ELSE zero_embedding]
    IN  [v |-> [v EXCEPT !.products_with_embeddings =
                    WithEmbeddings(v.products_data, all)],
         task |-> [pc |-> IF last >= n THEN "done" ELSE "batches",
                   i |-> last, all_embeddings |-> all]]

\* _generate_embeddings_background from one return of get_embeddings_batch
\* to the next await or to its end.  outcome: "ok", "fails" (the batch call
\* fails, zero embeddings stand in) or "raises" (the generation raises
\* before its first batch and leaves the list empty)
EmbeddingBatchReturns(v, task, outcome) ==
    LET n == Len(v.products_data)
        last == Min(task.i + MaxBatch, n)
        batch == SubSeq(v.products_data, task.i + 1, last)
        all == task.all_embeddings \o
                   [j \in 1..Len(batch) |->
                       IF outcome = "ok" THEN EmbeddingOf(batch[j])
                       ELSE zero_embedding]
    IN  IF outcome = "raises"
        THEN [v |-> [v EXCEPT !.products_with_embeddings = <<>>],
              task |-> [pc |-> "done", i |-> task.i,
                        all_embeddings |-> task.all_embeddings]]
        ELSE IF last >= n
        THEN [v |-> [v EXCEPT !.products_with_embeddings =
                        WithEmbeddings(v.products_data, all),
                                 !.fallback_mode = FALSE],
              task |-> [pc |-> "done", i |-> last, all_embeddings |-> all]]
        ELSE [v |-> v,
              task |-> [pc |-> "batches", i |-> last, all_embeddings |-> all]]

InitLife ==
    /\ InitSessions
    /\ recommendation_service = "None"
    /\ files \in FileStates
    /\ background = NoTask
    /\ service_lock = Unlocked
    /\ vs = NotLoaded

\* routes.get_recommendation_service, the dependency of every route that
\* needs the service: 503 when there is none
GetRecommendationService ==
    /\ UNCHANGED <<files, service_lock, session_cache, last_cleanup, now,
                   inflight, applied>>
    /\ IF recommendation_service = "None"
             /\ call.op = "get_recommendation_service"
       THEN call.attempts < MaxAttempts
       ELSE TRUE
    /\ \E embeds_ok \in BOOLEAN :
       \E r \in {get_or_create_recommendation_service(recommendation_service,
                     vs, files, embeds_ok)} :
           /\ recommendation_service' = r.service
           /\ vs' = r.v
           /\ background' = IF r.task
                            THEN [pc |-> "batches", i |-> 0,
                                  all_embeddings |-> <<>>]
                            ELSE background
           /\ call' = [op |-> "get_recommendation_service", files |-> files,
                       was |-> recommendation_service,
                       embeds_ok |-> embeds_ok,
                       attempted |-> r.attempted, success |-> r.success,
                       attempts |->
                           IF ~r.attempted THEN 0
                           ELSE IF call.op = "get_recommendation_service"
                           THEN call.attempts + 1
                           ELSE 1]
           /\ resp' = [status |-> IF r.service = "None" THEN 503 ELSE 200,
                       service |-> r.service, mode |-> SearchMode(r.v)]

\* the background task resumes from get_embeddings_batch
EmbeddingBatch ==
    /\ UNCHANGED <<recommendation_service, files, service_lock, session_cache,
                   last_cleanup, now, inflight, call, resp, applied>>
    /\ background.pc = "batches"
    /\ \E outcome \in {"ok", "fails"} \cup
                      (IF background.i = 0 THEN {"raises"} ELSE {}) :
           \E r \in {EmbeddingBatchReturns(vs, background, outcome)} :
               /\ vs' = r.v
               /\ background' = r.task

\* a handler of the published service searches; the call records the
\* strategy it dispatched to and the embedded list it read
SearchPublished ==
    /\ UNCHANGED <<lifecycle, vs, session_cache, last_cleanup, now, inflight,
                   applied>>
    /\ recommendation_service = "published"
    /\ \E k \in 1..MaxK, sq \in {"", "blue jeans"} :
           /\ call' = [op |-> "similarity_search", query_embedding |-> <<1, 0>>,
                       k |-> k, exclude_ids |-> {}, search_query |-> sq,
                       gender_filter |-> "", article_type_filter |-> <<>>,
                       mode |-> SearchMode(vs),
                       embedded |-> vs.products_with_embeddings,
                       task |-> background]
           /\ resp' = similarity_search(vs, <<1, 0>>, k, {}, sq, "", <<>>)

\* the operator puts the styles CSV in place while the service is down
RestoreCsv ==
    /\ UNCHANGED <<recommendation_service, background, service_lock, vs,
                   session_cache, last_cleanup, now, inflight, call, resp,
                   applied>>
    /\ recommendation_service = "None"
    /\ files.styles = "missing"
    /\ files' = [files EXCEPT !.styles = "configured"]

NextLife ==
    \/ GetRecommendationService
    \/ EmbeddingBatch
    \/ SearchPublished
    \/ RestoreCsv

SpecLife == InitLife /\ [][NextLife]_vars

(***************************************************************************)
(* Properties of the lifecycle, checked under SpecLife.                    *)
(***************************************************************************)
\* C19: while the background upgrade runs beside the requests, every search
\* dispatches to one strategy and reads either no embedded records (before
\* the upgrade) or the complete embedded list, one record per catalog row;
\* it never reads a partially built products_with_embeddings.
NoPartialEmbedded ==
    call.op = "similarity_search" /\ call.task.pc # "none" =>
        /\ call.mode = IF call.embedded = <<>> THEN "C" ELSE "B"
        /\ \/ call.embedded = <<>>
           \/ /\ Len(call.embedded) = Len(vs.products_data)
              /\ \A j \in 1..Len(call.embedded) :
                     call.embedded[j].id = vs.products_data[j].id

\* a search ran between two batches of the upgrade and read no embedded
\* record
SearchedBetweenBatches ==
    /\ call.op = "similarity_search"
    /\ call.task.pc = "batches"
    /\ call.task.all_embeddings # <<>>
    /\ call.embedded = <<>>
    /\ resp.results # <<>>

\* C20 as stated: whenever the styles CSV is missing under the configured
\* and the alternative paths, load_or_create_index returns False, the
\* global stays None and the request is answered 503.
UnavailableWithoutStylesCsv ==
    (/\ call.op = "get_recommendation_service"
     /\ call.was = "None"
     /\ call.files.styles = "missing")
        => /\ ~call.success
           /\ resp.service = "None"
           /\ resp.status = 503

\* C20: when the styles CSV is missing under the configured and the
\* alternative paths, and no prebuilt index is loaded with its embeddings
\* CSV, load_or_create_index returns False, the global stays None and the
\* request is answered 503; every request that finds the global None runs
\* the initialization again.
UnavailableWithoutCatalog ==
    call.op = "get_recommendation_service" /\ call.was = "None" =>
        /\ call.attempted
        /\ (/\ call.files.styles = "missing"
            /\ ~(call.files.index /\ call.files.embeddings_csv))
               => /\ ~call.success
                  /\ resp.service = "None"
                  /\ resp.status = 503

\* a second request initialized again, without a catalog, and got 503 too
RetriedStillUnavailable ==
    /\ call.op = "get_recommendation_service"
    /\ call.files.styles = "missing"
    /\ ~(call.files.index /\ call.files.embeddings_csv)
    /\ call.attempts = 2
    /\ resp.status = 503
    /\ recommendation_service = "None"

\* C21: load picks the search mode by priority: the FAISS strategy only if
\* both the index and its metadata were loaded; otherwise the embedding
\* strategy when embeddings can be generated at load; otherwise keyword.
LoadPicksMode ==
    (/\ call.op = "get_recommendation_service"
     /\ call.attempted
     /\ call.success)
        => resp.mode = IF call.files.index /\ call.files.metadata THEN "A"
                       ELSE IF call.embeds_ok THEN "B"
                       ELSE "C"

\* the load read the index, failed on the metadata, and left the searches
\* on the FAISS strategy
FaissWithoutMetadata ==
    /\ call.op = "get_recommendation_service"
    /\ call.success
    /\ ~call.files.metadata
    /\ resp.mode = "A"

\* the embeddings service answers at load and the mode is keyword all the
\* same
KeywordThoughEmbeddable ==
    /\ call.op = "get_recommendation_service"
    /\ call.success
    /\ ~call.files.index
    /\ call.embeds_ok
    /\ resp.mode = "C"

\* the catalog rows a keyword search of a category of the request matches:
\* of the category's article types, passing the gender test, not excluded,
\* with a term of the text in them
KeywordMatches(category) ==
    {i \in 1..Len(vs.df) :
        /\ ~Excluded(vs.df[i], call.run.req.exclude_ids)
        /\ ~GenderDrops(vs.df[i], call.run.req.user_profile.gender)
        /\ ~ArticleDrops(vs.df[i], map_article_type(category))
        /\ ScoreLess(<<0, 1>>,
               calculate_text_similarity(vs.df[i],
                   SearchTerms(call.run.search_query)))}

\* C26: when the query or embedding call fails in get_recommendations_v2,
\* the request degrades to keyword search: every requested category that
\* has matching, non-excluded catalog rows returns items and is listed in
\* categories_found.
DegradesToKeyword ==
    (/\ call.op = "recommend_v2"
     /\ ~call.openai_ok
     /\ resp.ok)
        => \A c \in Range(call.run.req.user_profile.preferred_article_types) :
               (c \notin call.raising /\ KeywordMatches(c) # {})
                   => /\ c \in Range(resp.categories_found)
                      /\ resp.categories[c] # <<>>

(***************************************************************************)
(* get_or_create_recommendation_service under concurrent first requests.   *)
(* Every await of the function is taken as a point where the event loop    *)
(* may run another request: entering `async with _service_lock` and        *)
(* `await service.initialize()`.  inflight[i] is request i's position.     *)
(***************************************************************************)
MaxRequests == 2

\* instances of RecommendationService constructed in one behaviour
MaxInstances == 3

Requesters == 1..MaxRequests

FilesConc ==
    {f \in FileStates : /\ ~f.index /\ ~f.embeddings_csv /\ ~f.metadata
                        /\ f.rows = SessionCatalog}

\* variant: the test under the lock left out
DoubleCheckSkipped(service) == FALSE

\* the second `if recommendation_service is not None`, under the lock
DoubleCheck(service) == service # "None"

InitConcurrent ==
    /\ session_cache = NoSessions
    /\ last_cleanup = 0
    /\ now = 0
    /\ inflight = [i \in Requesters |-> Idle]
    /\ call = [op |-> "init"]
    /\ resp = [op |-> "init"]
    /\ applied = [sid \in SessionIds |-> {}]
    /\ recommendation_service = "None"
    /\ files \in FilesConc
    /\ background = NoTask
    /\ service_lock = Unlocked
    /\ vs = NotLoaded

\* a request enters: the test before the lock
GetOrCreateEnter ==
    /\ UNCHANGED <<recommendation_service, files, background, service_lock, vs,
                   session_cache, last_cleanup, now, applied>>
    /\ \E i \in Requesters :
           /\ inflight[i].pc = "idle"
           /\ IF recommendation_service # "None"
              THEN /\ inflight' = inflight
                   /\ call' = [op |-> "get_or_create", request |-> i,
                               via |-> "first_check"]
                   /\ resp' = [service |-> recommendation_service]
              ELSE /\ inflight' = [inflight EXCEPT ![i] = [pc |-> "lock"]]
                   /\ UNCHANGED <<call, resp>>

\* the lock is granted: the test under the lock, then the instance is
\* constructed and the coroutine suspends in initialize
GetOrCreateLocked ==
    /\ UNCHANGED <<recommendation_service, files, background, vs,
                   session_cache, last_cleanup, now, applied>>
    /\ \E i \in Requesters :
           /\ inflight[i].pc = "lock"
           /\ service_lock.holder = 0
           /\ IF DoubleCheck(recommendation_service)
              THEN /\ inflight' = [inflight EXCEPT ![i] = Idle]
                   /\ service_lock' = service_lock
                   /\ call' = [op |-> "get_or_create", request |-> i,
                               via |-> "double_check"]
                   /\ resp' = [service |-> recommendation_service]
              ELSE /\ service_lock.created < MaxInstances
                   /\ inflight' = [inflight EXCEPT ![i] =
                          [pc |-> "initialize",
                           service |-> ToString(service_lock.created + 1)]]
                   /\ service_lock' = [service_lock EXCEPT
                                           !.holder = i, !.created = @ + 1]
                   /\ UNCHANGED <<call, resp>>

\* initialize returns or raises; a successful instance is assigned to the
\* global; the lock is released
GetOrCreateInitialized ==
    /\ UNCHANGED <<files, session_cache, last_cleanup, now, applied>>
    /\ \E i \in Requesters, raises \in BOOLEAN :
           /\ inflight[i].pc = "initialize"
           /\ \E r \in {load_or_create_index(NotLoaded, files, TRUE)} :
                  IF r.success /\ ~raises
                  THEN /\ recommendation_service' = inflight[i].service
                       /\ vs' = r.v
                       /\ background' = IF r.task
                                        THEN [pc |-> "batches", i |-> 0,
                                              all_embeddings |-> <<>>]
                                        ELSE background
                       /\ service_lock' = [service_lock EXCEPT
                              !.holder = 0,
                              !.published = Append(@, inflight[i].service)]
                       /\ resp' = [service |-> inflight[i].service]
                  ELSE /\ UNCHANGED <<recommendation_service, vs, background>>
                       /\ service_lock' = [service_lock EXCEPT
                              !.holder = 0,
                              !.failed = @ \cup {inflight[i].service}]
                       /\ resp' = [service |-> "None"]
           /\ inflight' = [inflight EXCEPT ![i] = Idle]
           /\ call' = [op |-> "get_or_create", request |-> i,
                       via |-> "initialize"]

\* the operator puts the styles CSV in place
RestoreCsvConcurrent ==
    /\ UNCHANGED <<recommendation_service, background, service_lock, vs,
                   session_cache, last_cleanup, now, inflight, call, resp,
                   applied>>
    /\ files.styles = "missing"
    /\ files' = [files EXCEPT !.styles = "configured"]

NextConcurrent ==
    \/ GetOrCreateEnter
    \/ GetOrCreateLocked
    \/ GetOrCreateInitialized
    \/ RestoreCsvConcurrent

SpecConcurrent == InitConcurrent /\ [][NextConcurrent]_vars

\* C29: under any interleaving of requests, at most one initialize runs at
\* a time, at most one instance is ever assigned to the global, an instance
\* whose initialization failed is never assigned, and once assigned the
\* global is never replaced.
InitializedOnce ==
    /\ [](/\ Cardinality({i \in Requesters :
                              inflight[i].pc = "initialize"}) <= 1
          /\ Len(service_lock.published) <= 1
          /\ recommendation_service \notin service_lock.failed
          /\ Range(service_lock.published) \cap service_lock.failed = {})
    /\ [][recommendation_service # "None" =>
              recommendation_service' = recommendation_service]_vars

\* a request that found no service and waited for the lock got the
\* instance another request published meanwhile, after an earlier instance
\* had failed
WaitedForPublished ==
    /\ call.op = "get_or_create"
    /\ call.via = "double_check"
    /\ resp.service # "None"
    /\ service_lock.failed # {}

(***************************************************************************)
(* openai_retry: the tenacity decorator on the OpenAI calls.  call holds   *)
(* the retry state of the call in progress (attempt_number, the outcome of *)
(* every attempt so far, the seconds slept between attempts), resp what    *)
(* the caller has got.                                                     *)
(***************************************************************************)
stop_after_attempt == 3

wait_min == 4

wait_max == 10

RECURSIVE Pow2(_)
Pow2(n) == IF n <= 0 THEN 1 ELSE 2 * Pow2(n - 1)

Max(a, b) == IF a >= b THEN a ELSE b

\* wait_exponential(multiplier=1, min=4, max=10)
wait_exponential(attempt_number) ==
    Max(Max(0, wait_min), Min(Pow2(attempt_number - 1), wait_max))

\* what one request to the OpenAI API does
ApiOutcomes ==
    {"ok", "RateLimitError", "APIConnectionError", "AuthenticationError",
     "BadRequestError"}

\* functions whose body lets the API's exception out
Propagating == {"get_query_embedding", "get_embeddings"}

\* functions whose body catches every exception and returns a fallback
Swallowing ==
    {"get_embeddings_batch", "analyze_inspiration_images",
     "analyze_user_selfie", "analyze_product_image"}

Wrapped == Propagating \cup Swallowing \cup {"generate_virtual_tryon"}

\* one run of the wrapped function: what the decorator sees
Attempt(fn, api, fallback_api) ==
    IF api = "ok" THEN [raised |-> FALSE, value |-> "result"]
    ELSE IF fn \in Swallowing THEN [raised |-> FALSE, value |-> "fallback"]
    ELSE IF fn = "generate_virtual_tryon"
         THEN IF fallback_api = "ok"
              THEN [raised |-> FALSE, value |-> "fallback"]
              ELSE [raised |-> TRUE, value |-> fallback_api]
    ELSE [raised |-> TRUE, value |-> api]

\* variant: retry on every exception
retry_if_exception_typeAny(outcome) == outcome.raised

\* retry_if_exception_type((RateLimitError, APIConnectionError))
retry_if_exception_type(outcome) ==
    outcome.raised /\ outcome.value \in {"RateLimitError", "APIConnectionError"}

\* the decorator's decision after an attempt
RetryIter(state, outcome) ==
    IF ~retry_if_exception_type(outcome)
    THEN [state |-> [state EXCEPT !.outcomes = Append(@, outcome)],
          resp |-> [op |-> "openai_retry",
                    status |-> IF outcome.raised THEN "raised" ELSE "returned",
                    value |-> outcome.value,
                    attempt |-> state.attempt_number]]
    ELSE IF state.attempt_number >= stop_after_attempt
    THEN [state |-> [state EXCEPT !.outcomes = Append(@, outcome)],
          resp |-> [op |-> "openai_retry", status |-> "raised",
                    value |-> outcome.value,
                    attempt |-> state.attempt_number]]
    ELSE [state |-> [state EXCEPT
                        !.outcomes = Append(@, outcome),
                        !.slept = @ + wait_exponential(state.attempt_number),
                        !.attempt_number = @ + 1],
          resp |-> [op |-> "openai_retry", status |-> "pending"]]

InitRetry ==
    /\ InitConcurrent
    /\ files.styles = "configured"

\* a caller invokes a wrapped function
RetryCall ==
    /\ UNCHANGED <<lifecycle, vs, session_cache, last_cleanup, now, inflight,
                   applied>>
    /\ \E fn \in Wrapped :
           /\ IF resp.op = "openai_retry" THEN resp.status # "pending" ELSE TRUE
           /\ call' = [op |-> "openai_retry", fn |-> fn, attempt_number |-> 1,
                       outcomes |-> <<>>, slept |-> 0]
           /\ resp' = [op |-> "openai_retry", status |-> "pending"]

\* the wrapped function runs once and the decorator decides
RetryAttempt ==
    /\ UNCHANGED <<lifecycle, vs, session_cache, last_cleanup, now, inflight,
                   applied>>
    /\ \E api \in ApiOutcomes, fallback_api \in ApiOutcomes :
           /\ resp.op = "openai_retry"
           /\ resp.status = "pending"
           /\ \E r \in {RetryIter(call, Attempt(call.fn, api, fallback_api))} :
                  /\ call' = r.state
                  /\ resp' = r.resp

NextRetry == RetryCall \/ RetryAttempt

SpecRetry == InitRetry /\ [][NextRetry]_vars /\ WF_vars(RetryAttempt)

Retryable(outcome) ==
    outcome.raised /\ outcome.value \in {"RateLimitError", "APIConnectionError"}

\* C30: a call wrapped by openai_retry ends after at most 3 attempts; a
\* further attempt follows only a RateLimitError or APIConnectionError; any
\* other error is raised to the caller by the attempt it occurred in; the
\* first attempt that succeeds gives the result; after the third retryable
\* failure the last error is raised.
RetryBounded ==
    /\ (resp.op = "openai_retry" /\ resp.status = "pending") ~>
           (resp.op = "openai_retry" /\ resp.status # "pending")
    /\ [](call.op = "openai_retry" =>
              /\ call.attempt_number <= 3
              /\ Len(call.outcomes) <= 3
              /\ \A n \in 1..Len(call.outcomes) :
                     n < Len(call.outcomes) => Retryable(call.outcomes[n])
              /\ resp.status = "pending" =>
                     /\ call.attempt_number = Len(call.outcomes) + 1
                     /\ \A n \in 1..Len(call.outcomes) :
                            Retryable(call.outcomes[n])
              /\ resp.status # "pending" =>
                     /\ call.outcomes # <<>>
                     /\ resp.attempt = Len(call.outcomes)
                     /\ resp.value = call.outcomes[Len(call.outcomes)].value
                     /\ resp.status = "returned" <=>
                            ~call.outcomes[Len(call.outcomes)].raised
                     /\ Retryable(call.outcomes[Len(call.outcomes)]) =>
                            Len(call.outcomes) = 3)

\* three retryable failures in a row: the third one's error reaches the
\* caller
ThirdFailureReraised ==
    /\ call.op = "openai_retry"
    /\ Len(call.outcomes) = 3
    /\ resp.status = "raised"
    /\ resp.value = "APIConnectionError"
    /\ call.outcomes[1].value = "RateLimitError"
    /\ call.slept = 8

====
